---- MODULE Spec2Model ----
(***************************************************************************)
(* svgcut: the Path Engine (SvgPath: toAbsoluteCommands, start, end,       *)
(* centroid, with their memoised fields) and the Reorder Engine            *)
(* (sortPathsByRelativePosition).                                          *)
(*                                                                         *)
(* Numbers.  A PathTree carries Decimal coordinates; the model uses        *)
(* integers for them (sums and products of the integers met here are       *)
(* exact in Decimal; a coordinate -0 is written "0" and is compared as 0,  *)
(* so a zero coordinate keeps no sign).  A Decimal that results from a     *)
(* division or a square root, that may be NaN / Infinity or whose zero     *)
(* keeps a sign that matters is the tuple <<s, e, d>> of the section on    *)
(* Decimal values, rounded to 20 significant digits as the library does;   *)
(* the entries of a transform matrix are integers and NegZero for -0.      *)
(*                                                                         *)
(* Trees.  A command is the tuple the parser builds: <<letter, args>>,     *)
(* and <<letter>> for ClosePath (src/src/svgpath.jison:97-105).            *)
(***************************************************************************)
EXTENDS Integers, Sequences, FiniteSets, TLC

----------------------------------------------------------------------------
(* Bounds of the model                                                     *)

\* Largest number of commands of a PathTree explored by SpecPath.
MaxCmds == 3

\* Largest number of paths in the collection handed to the Reorder Engine.
MaxPaths == 3

\* the number of SvgTransform.fromString calls chained through the CTM
\* argument (the nesting depth of the elements that carry a transform)
MaxDepth == 2

\* the largest number of arguments given to the command-line front end
\* after the program name (process.argv has two more elements)
MaxArgs == 4

\* the largest number of documents reorderSvgPaths returns to the front end
MaxDocuments == 2

\* the number of UnresolvedSvgPath objects of a document
MaxUses == 3

----------------------------------------------------------------------------
(* Decimal values                                                          *)
(*                                                                         *)
(* A Decimal is the tuple <<s, e, d>> of the library: the sign s (1 or     *)
(* -1), the exponent e of the first digit, and the decimal digits d of the *)
(* coefficient, so that the value is s * d[1].d[2]d[3]... * 10^e.  The     *)
(* coefficient of a finite number other than zero has neither a leading    *)
(* nor a trailing zero; zero is <<s, 0, <<0>>>> and keeps its sign;        *)
(* Infinity and -Infinity are <<s, 0, <<>>>>; NaN is <<0, 0, <<>>>>.       *)
(* Every operation rounds its exact result to precision significant        *)
(* digits, half away from zero (rounding mode ROUND_HALF_UP).              *)

Abs(n) == IF n < 0 THEN -n ELSE n

\* Decimal.precision, the default of the library
precision == 20

DecNaN == <<0, 0, <<>>>>

DecInfinity == <<1, 0, <<>>>>

DecZero(s) == <<s, 0, <<0>>>>

DecIsNaN(a) == a[1] = 0

DecIsFinite(a) == a[3] # <<>>

DecIsZero(a) == a[3] = <<0>>

DecNeg(a) == <<-a[1], a[2], a[3]>>

\* the sequence of the values a function takes on 1..n
Tabulated(f) == f \o <<>>

Zeros(n) == Tabulated([i \in 1..n |-> 0])

\* the digits of a natural number below 2^31, none for 0
NatDigits(n) ==
    LET count == CHOOSE k \in 0..10 :
                     /\ k = 10 \/ n < 10 ^ k
                     /\ k = 0 \/ n >= 10 ^ (k - 1)
    IN  Tabulated([i \in 1..count |-> (n \div 10 ^ (count - i)) % 10])

\* a sequence of digits without its leading zeros
StripLeading(d) ==
    IF \A i \in 1..Len(d) : d[i] = 0 THEN <<>>
    ELSE SubSeq(d, CHOOSE i \in 1..Len(d) :
                       d[i] # 0 /\ \A j \in 1..(i - 1) : d[j] = 0,
                Len(d))

\* a sequence of digits without its trailing zeros
StripTrailing(d) ==
    IF \A i \in 1..Len(d) : d[i] = 0 THEN <<>>
    ELSE SubSeq(d, 1, CHOOSE i \in 1..Len(d) :
                          d[i] # 0 /\ \A j \in (i + 1)..Len(d) : d[j] = 0)

\* the digits the columns lo to hi give, most significant first, and what
\* they hand to the column on their left: carry enters the last column,
\* and carries and borrows go from right to left, so that the right half
\* is worked out before the left one
RECURSIVE Carry(_, _, _, _)
Carry(cols, lo, hi, carry) ==
    IF lo > hi THEN <<<<>>, carry>>
    ELSE IF lo = hi
    THEN <<<<(cols[lo] + carry) % 10>>, (cols[lo] + carry) \div 10>>
    ELSE LET right == Carry(cols, (lo + hi) \div 2 + 1, hi, carry)
             left == Carry(cols, lo, (lo + hi) \div 2, right[2])
         IN  CASE right[2] \in Int -> <<left[1] \o right[1], left[2]>>

\* the digits of the natural number whose columns hold these values
Carried(cols) ==
    LET done == Carry(cols, 1, Len(cols), 0)
    IN  StripLeading(NatDigits(done[2]) \o done[1])

\* the digits d written on n columns
PadLeft(d, n) == Zeros(n - Len(d)) \o d

BigAdd(a, b) ==
    LET width == IF Len(a) >= Len(b) THEN Len(a) ELSE Len(b)
        left == PadLeft(a, width)
        right == PadLeft(b, width)
    IN  Carried(Tabulated([i \in 1..width |-> left[i] + right[i]]))

\* a - b for a >= b
BigSub(a, b) ==
    LET right == PadLeft(b, Len(a))
    IN  Carried(Tabulated([i \in 1..Len(a) |-> a[i] - right[i]]))

\* a * m for a digit m
BigMulSmall(a, m) == Carried(Tabulated([i \in 1..Len(a) |-> a[i] * m]))

\* the sum of the products a[i] * b[k + 1 - i] for i from lo to hi
RECURSIVE ColSum(_, _, _, _, _)
ColSum(a, b, k, lo, hi) ==
    IF lo > hi THEN 0
    ELSE IF lo = hi
    THEN (IF k + 1 - lo >= 1 /\ k + 1 - lo <= Len(b)
          THEN a[lo] * b[k + 1 - lo] ELSE 0)
    ELSE ColSum(a, b, k, lo, (lo + hi) \div 2)
             + ColSum(a, b, k, (lo + hi) \div 2 + 1, hi)

BigMul(a, b) ==
    IF a = <<>> \/ b = <<>> THEN <<>>
    ELSE Carried(Tabulated([k \in 1..(Len(a) + Len(b) - 1) |->
                               ColSum(a, b, k, 1, Len(a))]))

\* a < b, a = b or a > b as -1, 0 or 1, the digits having no leading zero
BigCmp(a, b) ==
    IF Len(a) # Len(b) THEN (IF Len(a) < Len(b) THEN -1 ELSE 1)
    ELSE IF a = b THEN 0
    ELSE LET first == CHOOSE i \in 1..Len(a) :
                          a[i] # b[i] /\ \A j \in 1..(i - 1) : a[j] = b[j]
         IN  IF a[first] < b[first] THEN -1 ELSE 1

\* finalise: the Decimal of sign s and value n * 10^q, n being the digits
\* of a natural number, rounded to precision significant digits
Finalise(s, n, q) ==
    LET digits == StripLeading(n)
        first == q + Len(digits) - 1
    IN  IF digits = <<>> THEN DecZero(s)
        ELSE IF Len(digits) <= precision
        THEN <<s, first, StripTrailing(digits)>>
        ELSE LET kept == SubSeq(digits, 1, precision)
                 up == IF digits[precision + 1] >= 5
                       THEN BigAdd(kept, <<1>>) ELSE kept
             IN  <<s, first + (Len(up) - precision),
                   StripTrailing(SubSeq(up, 1, precision))>>

\* new Decimal(n) for an integer n
Dec(n) ==
    IF n = 0 THEN DecZero(1)
    ELSE Finalise(IF n < 0 THEN -1 ELSE 1, NatDigits(Abs(n)), 0)

\* const zero = new Decimal(0)
zero == Dec(0)

\* the exponent of the last digit of a finite Decimal
LastExp(a) == a[2] - Len(a[3]) + 1

\* the integer the first n digits of a coefficient write
RECURSIVE DigitsNat(_, _)
DigitsNat(d, n) == IF n = 0 THEN 0 ELSE DigitsNat(d, n - 1) * 10 + d[n]

\* a Decimal is an integer of the model: finite, without fraction digits
\* and below 10^9
DecIsInteger(a) ==
    \/ DecIsZero(a)
    \/ DecIsFinite(a) /\ LastExp(a) >= 0 /\ a[2] <= 8

\* a Decimal as the trees of the model hold it: the integer of its value
\* when it has one, the Decimal itself otherwise
Number(a) ==
    IF DecIsZero(a) THEN 0
    ELSE IF DecIsInteger(a)
    THEN a[1] * DigitsNat(a[3] \o Zeros(LastExp(a)), a[2] + 1)
    ELSE a

\* a number of a tree is an integer and not a Decimal: the longest integer,
\* -2147483648, is written with 11 characters, the three parts of a
\* Decimal with more
IsInteger(n) == Len(ToString(n)) <= 11

\* the digits of the coefficient of a finite Decimal in units of 10^q,
\* q being at most LastExp(a)
Scaled(a, q) ==
    IF DecIsZero(a) THEN <<>> ELSE a[3] \o Zeros(LastExp(a) - q)

\* 10^k modulo q
RECURSIVE TenPowMod(_, _)
TenPowMod(k, q) ==
    IF k = 0 THEN 1 % q
    ELSE LET half == TenPowMod(k \div 2, q)
         IN  (half * half * (IF k % 2 = 1 THEN 10 ELSE 1)) % q

\* the digits a long division can ask for: precision + 1 significant ones
\* behind the zeros that open the fraction of a quotient below 1
MaxFraction == precision + 11

\* p.div(q) for the Decimals of two integers p and q, 0 <= q < 10000: the
\* k-th digit of the fraction comes from the remainder left after k - 1
DecDiv(p, q) ==
    IF q = 0
    THEN (IF p = 0 THEN DecNaN
          ELSE IF p > 0 THEN DecInfinity ELSE DecNeg(DecInfinity))
    ELSE LET whole == NatDigits(Abs(p) \div q)
             rest == Abs(p) % q
             fraction == Tabulated([k \in 1..MaxFraction |->
                             (((rest * TenPowMod(k - 1, q)) % q) * 10) \div q])
         IN  Finalise(IF p < 0 THEN -1 ELSE 1, whole \o fraction,
                      -MaxFraction)

\* a.plus(b)
DecPlus(a, b) ==
    IF DecIsNaN(a) \/ DecIsNaN(b) THEN DecNaN
    ELSE IF ~DecIsFinite(a) \/ ~DecIsFinite(b)
    THEN (IF DecIsFinite(a) THEN b
          ELSE IF DecIsFinite(b) \/ a[1] = b[1] THEN a
          ELSE DecNaN)
    ELSE IF DecIsZero(a) /\ DecIsZero(b)
    THEN DecZero(IF a[1] = -1 /\ b[1] = -1 THEN -1 ELSE 1)
    ELSE LET unit == IF LastExp(a) <= LastExp(b) THEN LastExp(a)
                     ELSE LastExp(b)
             left == Scaled(a, unit)
             right == Scaled(b, unit)
             order == BigCmp(left, right)
         IN  IF a[1] = b[1] THEN Finalise(a[1], BigAdd(left, right), unit)
             ELSE IF order = 0 THEN DecZero(1)
             ELSE IF order > 0
             THEN Finalise(a[1], BigSub(left, right), unit)
             ELSE Finalise(b[1], BigSub(right, left), unit)

\* a.sub(b)
DecSub(a, b) == DecPlus(a, DecNeg(b))

\* a.mul(b)
DecMul(a, b) ==
    IF DecIsNaN(a) \/ DecIsNaN(b) THEN DecNaN
    ELSE IF ~DecIsFinite(a) \/ ~DecIsFinite(b)
    THEN (IF DecIsZero(a) \/ DecIsZero(b) THEN DecNaN
          ELSE <<a[1] * b[1], 0, <<>>>>)
    ELSE IF DecIsZero(a) \/ DecIsZero(b) THEN DecZero(a[1] * b[1])
    ELSE Finalise(a[1] * b[1], BigMul(a[3], b[3]), LastExp(a) + LastExp(b))

\* a.pow(2)
DecSq(a) == DecMul(a, a)

\* the largest digit x from lo to hi such that (20 p + x) x <= r, twice
\* being the digits of 2 p
RECURSIVE RootDigit(_, _, _, _)
RootDigit(twice, r, lo, hi) ==
    IF lo = hi THEN lo
    ELSE IF BigCmp(BigMulSmall(twice \o <<(lo + hi + 1) \div 2>>,
                               (lo + hi + 1) \div 2), r) <= 0
    THEN RootDigit(twice, r, (lo + hi + 1) \div 2, hi)
    ELSE RootDigit(twice, r, lo, (lo + hi + 1) \div 2 - 1)

\* one step of the square root digit by digit: root[1] is the root of the
\* pairs of digits read so far and root[2] what they leave; pairs of zeros
\* follow the pairs of n, and an exact root only takes zeros
RootStep(n, step, root) ==
    LET pair == IF 2 * step > Len(n) THEN <<0, 0>>
                ELSE <<n[2 * step - 1], n[2 * step]>>
        rest == StripLeading(root[2] \o pair)
        twice == BigMulSmall(root[1], 2)
        digit == RootDigit(twice, rest, 0, 9)
    IN  IF rest = <<>> THEN <<root[1] \o <<0>>, <<>>>>
        ELSE <<StripLeading(root[1] \o <<digit>>),
               BigSub(rest, BigMulSmall(twice \o <<digit>>, digit))>>

\* the steps from lo to hi, the first half before the second
RECURSIVE RootLoop(_, _, _, _)
RootLoop(n, lo, hi, root) ==
    IF lo = hi THEN RootStep(n, lo, root)
    ELSE LET half == RootLoop(n, lo, (lo + hi) \div 2, root)
         IN  CASE Len(half) = 2 ->
                      RootLoop(n, (lo + hi) \div 2 + 1, hi, half)

\* a.sqrt(): precision + 1 digits of the root, then the rounding
DecSqrt(a) ==
    IF DecIsNaN(a) THEN DecNaN
    ELSE IF DecIsZero(a) THEN a
    ELSE IF a[1] < 0 THEN DecNaN
    ELSE IF ~DecIsFinite(a) THEN a
    ELSE LET unit == IF LastExp(a) % 2 = 0 THEN LastExp(a)
                     ELSE LastExp(a) - 1
             radicand == Scaled(a, unit)
             pairs == IF Len(radicand) % 2 = 0 THEN radicand
                      ELSE <<0>> \o radicand
             found == RootLoop(pairs, 1, precision + 1, <<<<>>, <<>>>>)
         IN  Finalise(1, found[1],
                      unit \div 2 - (precision + 1 - Len(pairs) \div 2))

\* a < b, a = b or a > b as -1, 0 or 1, for two Decimals other than NaN
DecCmp(a, b) ==
    LET left == IF DecIsZero(a) THEN 0 ELSE a[1]
        right == IF DecIsZero(b) THEN 0 ELSE b[1]
        size == IF ~DecIsFinite(a) /\ ~DecIsFinite(b) THEN 0
                ELSE IF ~DecIsFinite(a) THEN 1
                ELSE IF ~DecIsFinite(b) THEN -1
                ELSE IF a[2] # b[2] THEN (IF a[2] < b[2] THEN -1 ELSE 1)
                ELSE LET width == IF Len(a[3]) >= Len(b[3])
                                  THEN Len(a[3]) ELSE Len(b[3])
                     IN  BigCmp(a[3] \o Zeros(width - Len(a[3])),
                                b[3] \o Zeros(width - Len(b[3])))
    IN  IF left # right THEN (IF left < right THEN -1 ELSE 1)
        ELSE IF left = 0 THEN 0
        ELSE left * size

\* a.lt(b): false as soon as one operand is NaN
DecLt(a, b) == ~DecIsNaN(a) /\ ~DecIsNaN(b) /\ DecCmp(a, b) < 0

\* a.lte(b)
DecLte(a, b) == ~DecIsNaN(a) /\ ~DecIsNaN(b) /\ DecCmp(a, b) <= 0


\* the digits d[lo], ..., d[hi] written one after the other
RECURSIVE DigitsToString(_, _, _)
DigitsToString(d, lo, hi) ==
    IF lo > hi THEN ""
    ELSE IF lo = hi THEN ToString(d[lo])
    ELSE DigitsToString(d, lo, (lo + hi) \div 2)
             \o DigitsToString(d, (lo + hi) \div 2 + 1, hi)

\* Decimal.prototype.toString: the sign of a zero is not written; the
\* notation is exponential for an exponent of at most toExpNeg = -7 or at
\* least toExpPos = 21
DecToString(a) ==
    IF DecIsNaN(a) THEN "NaN"
    ELSE IF ~DecIsFinite(a)
    THEN (IF a[1] < 0 THEN "-Infinity" ELSE "Infinity")
    ELSE IF DecIsZero(a) THEN "0"
    ELSE LET size == Len(a[3])
             text ==
                 IF a[2] <= -7 \/ a[2] >= 21
                 THEN ToString(a[3][1])
                          \o (IF size > 1
                              THEN "." \o DigitsToString(a[3], 2, size)
                              ELSE "")
                          \o (IF a[2] < 0 THEN "e-" ELSE "e+")
                          \o ToString(Abs(a[2]))
                 ELSE IF a[2] < 0
                 THEN "0." \o DigitsToString(Zeros(-a[2] - 1), 1, -a[2] - 1)
                          \o DigitsToString(a[3], 1, size)
                 ELSE IF a[2] >= size - 1
                 THEN DigitsToString(a[3] \o Zeros(a[2] - size + 1),
                                     1, a[2] + 1)
                 ELSE DigitsToString(a[3], 1, a[2] + 1) \o "."
                          \o DigitsToString(a[3], a[2] + 2, size)
         IN  (IF a[1] < 0 THEN "-" ELSE "") \o text

----------------------------------------------------------------------------
(* Command letters                                                         *)

Letters == {"M", "L", "H", "V", "Z", "C", "S", "Q", "T", "A"}

toUpperCase ==
    [l \in Letters |-> l] @@
    ("m" :> "M") @@ ("l" :> "L") @@ ("h" :> "H") @@ ("v" :> "V") @@
    ("z" :> "Z") @@ ("c" :> "C") @@ ("s" :> "S") @@ ("q" :> "Q") @@
    ("t" :> "T") @@ ("a" :> "A")

IsRelative(command) == command # toUpperCase[command]

Last(s) == s[Len(s)]

----------------------------------------------------------------------------
(* SvgPath.toAbsoluteCommands: one pass over the tree with the running     *)
(* point (x, y) and the subpath start (sx, sy).                            *)

\* the relative branch of M, L and T: each pair is added to the running
\* point, which then moves to the result
RECURSIVE AccPairs(_, _, _)
AccPairs(x, y, coordPairs) ==
    IF coordPairs = <<>> THEN <<>>
    ELSE LET nx == x + coordPairs[1][1]
             ny == y + coordPairs[1][2]
         IN  <<<<nx, ny>>>> \o AccPairs(nx, ny, Tail(coordPairs))

\* the relative branch of H (on x) and of V (on y)
RECURSIVE AccCoords(_, _)
AccCoords(v, coords) ==
    IF coords = <<>> THEN <<>>
    ELSE <<v + coords[1]>> \o AccCoords(v + coords[1], Tail(coords))

\* Mutant of AccTriplets: the second control point is offset by the point
\* at the end of the repetition.
RECURSIVE AccTripletsLateControl(_, _, _)
AccTripletsLateControl(x, y, cs) ==
    IF cs = <<>> THEN <<>>
    ELSE LET coordPair1 == <<cs[1][1][1] + x, cs[1][1][2] + y>>
             nx == x + cs[1][3][1]
             ny == y + cs[1][3][2]
             coordPair2 == <<cs[1][2][1] + nx, cs[1][2][2] + ny>>
         IN  <<<<coordPair1, coordPair2, <<nx, ny>>>>>> \o
             AccTripletsLateControl(nx, ny, Tail(cs))

\* the relative branch of C: both control points are offset by the point
\* at the start of the repetition, then the running point advances
RECURSIVE AccTriplets(_, _, _)
AccTriplets(x, y, cs) ==
    IF cs = <<>> THEN <<>>
    ELSE LET coordPair1 == <<cs[1][1][1] + x, cs[1][1][2] + y>>
             coordPair2 == <<cs[1][2][1] + x, cs[1][2][2] + y>>
             nx == x + cs[1][3][1]
             ny == y + cs[1][3][2]
         IN  <<<<coordPair1, coordPair2, <<nx, ny>>>>>> \o
             AccTriplets(nx, ny, Tail(cs))

\* the relative branch of S and Q
RECURSIVE AccDoubles(_, _, _)
AccDoubles(x, y, cs) ==
    IF cs = <<>> THEN <<>>
    ELSE LET coordPair1 == <<cs[1][1][1] + x, cs[1][1][2] + y>>
             nx == x + cs[1][2][1]
             ny == y + cs[1][2][2]
         IN  <<<<coordPair1, <<nx, ny>>>>>> \o AccDoubles(nx, ny, Tail(cs))

\* the relative branch of A: slice(0, 5) is kept, the end point is offset
RECURSIVE AccArcs(_, _, _)
AccArcs(x, y, arcs) ==
    IF arcs = <<>> THEN <<>>
    ELSE LET nx == x + arcs[1][6][1]
             ny == y + arcs[1][6][2]
         IN  <<<<arcs[1][1], arcs[1][2], arcs[1][3], arcs[1][4], arcs[1][5],
                 <<nx, ny>>>>>> \o AccArcs(nx, ny, Tail(arcs))

\* the arguments pushed to absTree for one command met at (x, y)
AbsArgs(x, y, draw) ==
    LET command == toUpperCase[draw[1]]
        args == draw[2]
    IN  IF ~IsRelative(draw[1]) THEN args
        ELSE CASE command \in {"M", "L", "T"} -> AccPairs(x, y, args)
               [] command = "H" -> AccCoords(x, args)
               [] command = "V" -> AccCoords(y, args)
               [] command = "C" -> AccTriplets(x, y, args)
               [] command \in {"S", "Q"} -> AccDoubles(x, y, args)
               [] command = "A" -> AccArcs(x, y, args)

\* the state (x, y, sx, sy, absTree) after one command of the loop body
AbsStep(st, draw) ==
    LET command == toUpperCase[draw[1]]
    IN  IF command = "Z"
        THEN [x |-> st.sx, y |-> st.sy, sx |-> st.sx, sy |-> st.sy,
              absTree |-> Append(st.absTree, <<"Z">>)]
        ELSE
        LET out == AbsArgs(st.x, st.y, draw)
            l == Last(out)
            nx == CASE command \in {"M", "L", "T"} -> l[1]
                    [] command = "H" -> l
                    [] command = "V" -> st.x
                    [] command = "C" -> l[3][1]
                    [] command \in {"S", "Q"} -> l[2][1]
                    [] command = "A" -> l[6][1]
            ny == CASE command \in {"M", "L", "T"} -> l[2]
                    [] command = "H" -> st.y
                    [] command = "V" -> l
                    [] command = "C" -> l[3][2]
                    [] command \in {"S", "Q"} -> l[2][2]
                    [] command = "A" -> l[6][2]
        IN  [x |-> nx, y |-> ny,
             sx |-> IF command = "M" THEN out[1][1] ELSE st.sx,
             sy |-> IF command = "M" THEN out[1][2] ELSE st.sy,
             absTree |-> Append(st.absTree, <<command, out>>)]

RECURSIVE AbsLoop(_, _)
AbsLoop(st, tree) ==
    IF tree = <<>> THEN st ELSE AbsLoop(AbsStep(st, Head(tree)), Tail(tree))

\* the absTree built by toAbsoluteCommands for this._tree = tree
toAbsoluteCommands(tree) ==
    AbsLoop([x |-> 0, y |-> 0, sx |-> 0, sy |-> 0, absTree |-> <<>>],
            tree).absTree

----------------------------------------------------------------------------
(* SvgPath.start, SvgPath.end, SvgPath.centroid                            *)

\* `const [command, args] = this._tree[0]` destructures undefined when the
\* tree is empty: a TypeError
startThrows(tree) == Len(tree) = 0

\* get start, for a tree on which it does not throw
start(tree) ==
    IF tree[1][1] \in {"M", "m"} THEN <<tree[1][2][1][1], tree[1][2][1][2]>>
    ELSE <<0, 0>>

\* `const [command, args] = absTree[absTree.length - 1]` destructures
\* undefined when the tree is empty: a TypeError
endThrows(tree) == Len(toAbsoluteCommands(tree)) = 0

\* get end, for a tree on which it does not throw: x and y start at zero
\* and the switch on the last absolute command assigns them
end(tree) ==
    LET absTree == toAbsoluteCommands(tree)
        draw == Last(absTree)
        command == draw[1]
        lastArg == Last(draw[2])
    IN  CASE command \in {"M", "L", "T"} -> <<lastArg[1], lastArg[2]>>
          [] command = "H" -> <<lastArg, 0>>
          [] command = "V" -> <<0, lastArg>>
          [] command = "Z" -> start(tree)
          [] command = "C" -> <<lastArg[3][1], lastArg[3][2]>>
          [] command \in {"S", "Q"} -> <<lastArg[2][1], lastArg[2][2]>>
          [] command = "A" -> <<lastArg[6][1], lastArg[6][2]>>

\* the end points visited by one absolute command met at (x, y): the
\* points that the centroid loop adds to (Sx, Sy)
RECURSIVE VisitH(_, _)
VisitH(y, xCoords) ==
    IF xCoords = <<>> THEN <<>>
    ELSE <<<<xCoords[1], y>>>> \o VisitH(y, Tail(xCoords))

RECURSIVE VisitV(_, _)
VisitV(x, yCoords) ==
    IF yCoords = <<>> THEN <<>>
    ELSE <<<<x, yCoords[1]>>>> \o VisitV(x, Tail(yCoords))

Visited(x, y, draw) ==
    LET command == draw[1]
        args == draw[2]
    IN  CASE command \in {"M", "L", "T"} -> args
          [] command = "H" -> VisitH(y, args)
          [] command = "V" -> VisitV(x, args)
          [] command = "C" -> [i \in 1..Len(args) |-> args[i][3]]
          [] command \in {"S", "Q"} -> [i \in 1..Len(args) |-> args[i][2]]
          [] command = "A" -> [i \in 1..Len(args) |-> args[i][6]]

RECURSIVE SumX(_)
SumX(ps) == IF ps = <<>> THEN 0 ELSE ps[1][1] + SumX(Tail(ps))

RECURSIVE SumY(_)
SumY(ps) == IF ps = <<>> THEN 0 ELSE ps[1][2] + SumY(Tail(ps))

\* Mutant of CentroidStep: a ClosePath leaves the running point where it is.
CentroidStepNoReset(st, draw) ==
    IF draw[1] = "Z"
    THEN st
    ELSE LET vs == Visited(st.x, st.y, draw)
         IN  [x |-> Last(vs)[1], y |-> Last(vs)[2],
              sx |-> IF draw[1] = "M" THEN draw[2][1][1] ELSE st.sx,
              sy |-> IF draw[1] = "M" THEN draw[2][1][2] ELSE st.sy,
              Sx |-> st.Sx + SumX(vs), Sy |-> st.Sy + SumY(vs),
              count |-> st.count + Len(vs)]

\* one iteration of the centroid loop on the state (x, y, sx, sy, Sx, Sy, count)
CentroidStep(st, draw) ==
    IF draw[1] = "Z"
    THEN [st EXCEPT !.x = st.sx, !.y = st.sy]
    ELSE LET vs == Visited(st.x, st.y, draw)
         IN  [x |-> Last(vs)[1], y |-> Last(vs)[2],
              sx |-> IF draw[1] = "M" THEN draw[2][1][1] ELSE st.sx,
              sy |-> IF draw[1] = "M" THEN draw[2][1][2] ELSE st.sy,
              Sx |-> st.Sx + SumX(vs), Sy |-> st.Sy + SumY(vs),
              count |-> st.count + Len(vs)]

RECURSIVE CentroidLoop(_, _)
CentroidLoop(st, absTree) ==
    IF absTree = <<>> THEN st
    ELSE CentroidLoop(CentroidStep(st, Head(absTree)), Tail(absTree))

\* get centroid: [Sx.div(count), Sy.div(count)]
centroid(tree) ==
    LET st == CentroidLoop([x |-> 0, y |-> 0, sx |-> 0, sy |-> 0,
                            Sx |-> 0, Sy |-> 0, count |-> 0],
                           toAbsoluteCommands(tree))
    IN  <<DecDiv(st.Sx, st.count), DecDiv(st.Sy, st.count)>>

----------------------------------------------------------------------------
(* SvgPath.extractSubpaths and SvgPath.toString                            *)

\* the loop over extraArgs of a relative MoveTo met after the first
\* command: x = x.plus(coordPair[0]); y = x.plus(coordPair[1])
RECURSIVE ExtraArgsLoop(_, _, _)
ExtraArgsLoop(x, y, extraArgs) ==
    IF extraArgs = <<>> THEN <<x, y>>
    ELSE LET nx == x + extraArgs[1][1]
             ny == nx + extraArgs[1][2]
         IN  ExtraArgsLoop(nx, ny, Tail(extraArgs))

\* Mutant of ExtractMoveTo: the subpath under construction is not pushed
\* to subpaths when a MoveTo is met.
ExtractMoveToNoFlush(st, draw) ==
    LET args == draw[2]
    IN  IF IsRelative(draw[1])
        THEN LET extraArgs == Tail(args)
                 x == st.x + args[1][1]
                 y == st.y + args[1][2]
                 xy == ExtraArgsLoop(x, y, extraArgs)
             IN  [x |-> xy[1], y |-> xy[2], sx |-> x, sy |-> y,
                  subpaths |-> st.subpaths,
                  subpath |->
                      IF Len(extraArgs) > 0
                      THEN << <<"M", <<<<x, y>>>>>>, <<"l", extraArgs>> >>
                      ELSE << <<"M", <<<<x, y>>>>>> >>]
        ELSE [x |-> Last(args)[1], y |-> Last(args)[2],
              sx |-> args[1][1], sy |-> args[1][2],
              subpaths |-> st.subpaths,
              subpath |-> << <<"M", args>> >>]

\* case 'M' of the loop of extractSubpaths: the subpath under construction
\* is pushed and a new one is opened; a relative MoveTo is written as an
\* absolute one at the resolved point, its further pairs as an 'l' command
ExtractMoveTo(st, draw) ==
    LET args == draw[2]
        subpaths == IF Len(st.subpath) > 0
                    THEN Append(st.subpaths, st.subpath)
                    ELSE st.subpaths
    IN  IF IsRelative(draw[1])
        THEN LET extraArgs == Tail(args)
                 x == st.x + args[1][1]
                 y == st.y + args[1][2]
                 xy == ExtraArgsLoop(x, y, extraArgs)
             IN  [x |-> xy[1], y |-> xy[2], sx |-> x, sy |-> y,
                  subpaths |-> subpaths,
                  subpath |->
                      IF Len(extraArgs) > 0
                      THEN << <<"M", <<<<x, y>>>>>>, <<"l", extraArgs>> >>
                      ELSE << <<"M", <<<<x, y>>>>>> >>]
        ELSE [x |-> Last(args)[1], y |-> Last(args)[2],
              sx |-> args[1][1], sy |-> args[1][2],
              subpaths |-> subpaths,
              subpath |-> << <<"M", args>> >>]

\* Mutant of ExtractStep: every command is pushed with its letter in
\* upper case, as the MoveTo commands are.
ExtractStepUpper(st, draw) ==
    IF toUpperCase[draw[1]] = "M" THEN ExtractMoveTo(st, draw)
    ELSE LET moved == AbsStep([x |-> st.x, y |-> st.y,
                               sx |-> st.sx, sy |-> st.sy,
                               absTree |-> <<>>], draw)
             pushed == IF Len(draw) = 1 THEN <<toUpperCase[draw[1]]>>
                       ELSE <<toUpperCase[draw[1]], draw[2]>>
         IN  [st EXCEPT !.x = moved.x, !.y = moved.y,
                        !.subpath = Append(st.subpath, pushed)]

\* one command of the loop of extractSubpaths: every other command moves
\* the running point as in toAbsoluteCommands and is pushed as it is
ExtractStep(st, draw) ==
    IF toUpperCase[draw[1]] = "M" THEN ExtractMoveTo(st, draw)
    ELSE LET moved == AbsStep([x |-> st.x, y |-> st.y,
                               sx |-> st.sx, sy |-> st.sy,
                               absTree |-> <<>>], draw)
         IN  [st EXCEPT !.x = moved.x, !.y = moved.y,
                        !.subpath = Append(st.subpath, draw)]

RECURSIVE ExtractLoop(_, _)
ExtractLoop(st, tree) ==
    IF tree = <<>> THEN st
    ELSE ExtractLoop(ExtractStep(st, Head(tree)), Tail(tree))

\* Mutant of extractSubpathsThrows: the letter is compared as it is
\* written, so that a relative MoveTo is refused too.
extractSubpathsThrowsOnLower(tree) ==
    Len(tree) > 0 /\ tree[1][1] # "M"

\* extractSubpaths throws Error('Invalid start command')
extractSubpathsThrows(tree) ==
    Len(tree) > 0 /\ toUpperCase[tree[1][1]] # "M"

\* the trees of the SvgPath objects returned by extractSubpaths; the
\* running point starts at the first pair of the first command
extractSubpaths(tree) ==
    IF Len(tree) = 0 THEN <<>>
    ELSE LET x == tree[1][2][1][1]
             y == tree[1][2][1][2]
             st == ExtractLoop([x |-> x, y |-> y, sx |-> x, sy |-> y,
                                subpaths |-> <<>>,
                                subpath |-> <<tree[1]>>], Tail(tree))
         IN  IF Len(st.subpath) > 0
             THEN Append(st.subpaths, st.subpath)
             ELSE st.subpaths

\* Array.prototype.join(' ') on the texts of numbers
RECURSIVE Join(_)
Join(texts) ==
    IF texts = <<>> THEN ""
    ELSE IF Len(texts) = 1 THEN texts[1]
    ELSE texts[1] \o " " \o Join(Tail(texts))

\* Decimal.prototype.toString on a number of a tree
NumberToString(n) == IF IsInteger(n) THEN ToString(n) ELSE DecToString(n)

\* the texts join makes of the numbers of a command
Texts(numbers) == [i \in 1..Len(numbers) |-> NumberToString(numbers[i])]

\* Array.prototype.flat() on a sequence of sequences
RECURSIVE Flat(_)
Flat(s) == IF s = <<>> THEN <<>> ELSE Head(s) \o Flat(Tail(s))

\* the texts of one arc argument flattened twice, its flags written with
\* unary plus
FlatArc(arc) ==
    <<NumberToString(arc[1]), NumberToString(arc[2]), DecToString(arc[3]),
      IF arc[4] THEN "1" ELSE "0", IF arc[5] THEN "1" ELSE "0",
      NumberToString(arc[6][1]), NumberToString(arc[6][2])>>

\* the text of one command in toString
CommandToString(draw) ==
    LET command == toUpperCase[draw[1]]
    IN  CASE command \in {"M", "L", "T"} ->
                draw[1] \o Join(Texts(Flat(draw[2])))
          [] command \in {"H", "V"} -> draw[1] \o Join(Texts(draw[2]))
          [] command = "Z" -> "Z"
          [] command \in {"C", "S", "Q"} ->
                draw[1] \o Join(Texts(Flat(Flat(draw[2]))))
          [] command = "A" ->
                draw[1] \o
                Join(Flat([i \in 1..Len(draw[2]) |-> FlatArc(draw[2][i])]))

\* SvgPath.toString: the texts of the commands joined with ''
RECURSIVE toString(_)
toString(tree) ==
    IF tree = <<>> THEN ""
    ELSE CommandToString(Head(tree)) \o toString(Tail(tree))

----------------------------------------------------------------------------
(* SvgPathReorderUtils                                                     *)

\* enum Strategy: a tag is written as the property key that the operator
\* `in` and the index of StrategyClosestFunctionMap make of it, "0" for
\* the number 0 of Strategy.CENTROID and "1" for Strategy.START_END
CENTROID == "0"

START_END == "1"

\* a tag that is no member of the enum ('x' in the test of the error)
InvalidStrategy == "x"

\* the keys of StrategyClosestFunctionMap
StrategyClosestFunctionMap == {CENTROID, START_END}

\* names that StrategyClosestFunctionMap, an object literal, inherits from
\* Object.prototype: `in` finds them as it finds the keys
ObjectPrototype == {"constructor", "toString", "valueOf", "__proto__"}

\* the inherited members that are functions: Object(paths, c) returns
\* paths, toString a string and valueOf the map, none of which has an
\* index; __proto__ is the prototype, which cannot be called
Callable == {"constructor", "toString", "valueOf"}

\* the strategy tags a call is made with
Strategies ==
    StrategyClosestFunctionMap \cup {InvalidStrategy} \cup ObjectPrototype

\* a coordinate pair of integers as a tuple of Decimals
DecPair(p) == <<Dec(p[1]), Dec(p[2])>>

\* sq.reduce((acc, cv) => acc.plus(cv), zero) on the first i squares
RECURSIVE SqSum(_, _, _)
SqSum(coordTuple1, coordTuple2, i) ==
    IF i = 0 THEN Dec(0)
    ELSE DecPlus(SqSum(coordTuple1, coordTuple2, i - 1),
                 DecSq(DecSub(coordTuple2[i], coordTuple1[i])))

\* computeDistance; an absent tuple (undefined) is <<>>
computeDistance(coordTuple1, coordTuple2) ==
    IF \/ coordTuple1 = <<>>
       \/ coordTuple2 = <<>>
       \/ Len(coordTuple1) # Len(coordTuple2)
    THEN DecNaN
    ELSE DecSqrt(SqSum(coordTuple1, coordTuple2, Len(coordTuple1)))

\* Mutant of ReduceClosest: the comparison is lte, so the last of several
\* equidistant paths wins.
RECURSIVE ReduceClosestLastWins(_, _, _)
ReduceClosestLastWins(results, acc, i) ==
    IF i > Len(results) THEN acc
    ELSE ReduceClosestLastWins(results,
                               IF DecLte(results[i].distance, acc.distance)
                               THEN results[i] ELSE acc,
                               i + 1)

\* Mutant of ReduceClosest: the test is !acc.distance.lt(cv.distance), which
\* a NaN distance passes.
RECURSIVE ReduceClosestNotGreater(_, _, _)
ReduceClosestNotGreater(results, acc, i) ==
    IF i > Len(results) THEN acc
    ELSE ReduceClosestNotGreater(results,
                                 IF ~DecLt(acc.distance, results[i].distance)
                                 THEN results[i] ELSE acc,
                                 i + 1)

\* the reduce of both strategy functions: cv replaces acc only when
\* cv.distance.lt(acc.distance)
RECURSIVE ReduceClosest(_, _, _)
ReduceClosest(results, acc, i) ==
    IF i > Len(results) THEN acc
    ELSE ReduceClosest(results,
                       IF DecLt(results[i].distance, acc.distance)
                       THEN results[i] ELSE acc,
                       i + 1)

\* the initial value of the reduce: index NaN (0 in the model, whose
\* indices start at 1), distance Infinity and no next
NoResult == [index |-> 0, distance |-> DecInfinity, next |-> <<>>]

\* findClosestPathToPointByCentroid on the trees of the remaining paths
findClosestPathToPointByCentroid(trees, coordPair) ==
    ReduceClosest(
        [index \in 1..Len(trees) |->
            [index |-> index,
             distance |-> computeDistance(coordPair, centroid(trees[index])),
             next |-> centroid(trees[index])]],
        NoResult, 1)

\* Mutant of findClosestPathToPointByStartEnd: next is the start of the
\* path instead of its end.
StartEndNextIsStart(trees, coordPair) ==
    ReduceClosest(
        [index \in 1..Len(trees) |->
            [index |-> index,
             distance |-> computeDistance(coordPair,
                                          DecPair(start(trees[index]))),
             next |-> DecPair(start(trees[index]))]],
        NoResult, 1)

\* findClosestPathToPointByStartEnd on the trees of the remaining paths,
\* when no start or end getter throws
findClosestPathToPointByStartEnd(trees, coordPair) ==
    ReduceClosest(
        [index \in 1..Len(trees) |->
            [index |-> index,
             distance |-> computeDistance(coordPair,
                                          DecPair(start(trees[index]))),
             next |-> DecPair(end(trees[index]))]],
        NoResult, 1)

\* the map callback of findClosestPathToPointByStartEnd reads path.start
\* and path.end of every remaining path
StartEndThrows(trees) ==
    \E index \in 1..Len(trees) :
        startThrows(trees[index]) \/ endThrows(trees[index])

\* Mutant of Splice: splice(index) with no count removes the rest of the
\* collection.
SpliceToEnd(s, index) == SubSeq(s, 1, index - 1)

\* paths.splice(index, 1)
Splice(s, index) == SubSeq(s, 1, index - 1) \o SubSeq(s, index + 1, Len(s))

----------------------------------------------------------------------------
(* SvgTransform.  A matrix is the tuple <<a, b, c, d, e, f>> of            *)
(* SvgTransformMatrix; its entries are integers in the model, and NegZero  *)
(* stands for the -0 of Decimal: a product of Decimals has the product of  *)
(* the signs even when it is zero, a sum of two zeros is -0 only when both *)
(* are, and Decimal.atan2 reads the sign of a zero.  An Ellipse is the     *)
(* record [rx, ry, phi], rx and ry numbers of a tree and phi a Decimal, in *)
(* degrees.                                                                *)

NegZero == -2147483647

IsZero(n) == n = 0 \/ n = NegZero

\* the number an entry stands for
Value(n) == IF n = NegZero THEN 0 ELSE n

\* m.neg()
IntNeg(n) == IF n = 0 THEN NegZero ELSE IF n = NegZero THEN 0 ELSE -n

\* m.mul(n)
IntMul(m, n) ==
    IF IsZero(m) \/ IsZero(n)
    THEN (IF (m < 0) = (n < 0) THEN 0 ELSE NegZero)
    ELSE m * n

\* m.plus(n)
IntPlus(m, n) ==
    IF IsZero(m) /\ IsZero(n)
    THEN (IF m = NegZero /\ n = NegZero THEN NegZero ELSE 0)
    ELSE Value(m) + Value(n)

\* m.sub(n)
IntSub(m, n) == IntPlus(m, IntNeg(n))

\* m.pow(2): the square of a zero is 0
IntSq(n) == Value(n) * Value(n)

identity == <<1, 0, 0, 1, 0, 0>>

\* Mutant of catenateTransform: the two factors are exchanged.
catenateTransformSwapped(A, B) ==
    << IntPlus(IntMul(B[1], A[1]), IntMul(A[2], B[3])),
       IntPlus(IntMul(A[1], B[2]), IntMul(A[2], B[4])),
       IntPlus(IntMul(B[1], A[3]), IntMul(B[3], A[4])),
       IntPlus(IntMul(B[2], A[3]), IntMul(B[4], A[4])),
       IntPlus(IntPlus(IntMul(B[1], A[5]), IntMul(B[3], A[6])), B[5]),
       IntPlus(IntPlus(IntMul(B[2], A[5]), IntMul(B[4], A[6])), B[6]) >>

catenateTransform(A, B) ==
    << IntPlus(IntMul(A[1], B[1]), IntMul(B[2], A[3])),
       IntPlus(IntMul(B[1], A[2]), IntMul(B[2], A[4])),
       IntPlus(IntMul(A[1], B[3]), IntMul(A[3], B[4])),
       IntPlus(IntMul(A[2], B[3]), IntMul(A[4], B[4])),
       IntPlus(IntPlus(IntMul(A[1], B[5]), IntMul(A[3], B[6])), A[5]),
       IntPlus(IntPlus(IntMul(A[2], B[5]), IntMul(A[4], B[6])), A[6]) >>

\* the productions of the transform grammar that involve no angle
matrix(a, b, c, d, e, f) == <<a, b, c, d, e, f>>

scale(sx, sy) == <<sx, 0, 0, sy, 0, 0>>

translate(tx, ty) == <<1, 0, 0, 1, tx, ty>>

\* parse of '@generated/svgtransform' on the transform strings of the
\* model: the list of the matrices of the string, in order
parse ==
    ("" :> <<>>) @@
    ("translate(3 -2)" :> <<translate(3, -2)>>) @@
    ("scale(2)" :> <<scale(2, 2)>>) @@
    ("scale(-1 1)" :> <<scale(-1, 1)>>) @@
    ("scale(1 0)" :> <<scale(1, 0)>>) @@
    ("matrix(0 1 -1 0 0 0)" :> <<matrix(0, 1, -1, 0, 0, 0)>>) @@
    ("matrix(0 1 1 0 0 0)" :> <<matrix(0, 1, 1, 0, 0, 0)>>) @@
    ("matrix(1 0 1 1 0 0)" :> <<matrix(1, 0, 1, 1, 0, 0)>>) @@
    ("matrix(1 -2 3 4 -5 -6)" :> <<matrix(1, -2, 3, 4, -5, -6)>>) @@
    ("translate(5) scale(1 -1)" :> <<translate(5, 0), scale(1, -1)>>) @@
    ("matrix(1 2 0 1 0 0),translate(-1 4)" :>
        <<matrix(1, 2, 0, 1, 0, 0), translate(-1, 4)>>)

\* strings on which parse throws
Unparseable == {"invalid syntax", "scale(", "translate(1 2 3)"}

\* the transform argument of fromString: <<>> for an absent one, else
\* <<string>>
TransformStrings ==
    {<<>>} \cup {<<s>> : s \in DOMAIN parse \cup Unparseable}

\* parseTransform: the error of parse is caught and gives []; an absent
\* string gives the lexer no input, as the empty string does
parseTransform(transform) ==
    IF transform = <<>> THEN parse[""]
    ELSE IF transform[1] \in Unparseable THEN <<>>
    ELSE parse[transform[1]]

\* [transform].flatMap(parseTransform).reduce(catenateTransform, CTM)
RECURSIVE Reduce(_, _)
Reduce(acc, matrices) ==
    IF matrices = <<>> THEN acc
    ELSE Reduce(catenateTransform(acc, Head(matrices)), Tail(matrices))

\* SvgTransform.fromString(transform, CTM): the matrix of the new object
fromString(transform, CTM) == Reduce(CTM, parseTransform(transform))

\* the coordinates of a tree keep no sign of zero
apply(T, coord) ==
    << Value(IntPlus(IntPlus(IntMul(T[1], coord[1]), IntMul(T[3], coord[2])),
                     T[5])),
       Value(IntPlus(IntPlus(IntMul(T[2], coord[1]), IntMul(T[4], coord[2])),
                     T[6])) >>

applyRelative(T, coord) ==
    << Value(IntPlus(IntMul(T[1], coord[1]), IntMul(T[3], coord[2]))),
       Value(IntPlus(IntMul(T[2], coord[1]), IntMul(T[4], coord[2]))) >>

hasRotation(T) == Value(T[2]) # 0 \/ Value(T[3]) # 0

orientationPreserving(T) ==
    Value(IntSub(IntMul(T[1], T[4]), IntMul(T[2], T[3]))) >= 0

\* the Decimal an entry of a matrix or a number of a tree stands for
ToDecimal(n) ==
    IF ~IsInteger(n) THEN n
    ELSE IF n = NegZero THEN DecZero(-1)
    ELSE Dec(n)

\* degToRad.mul(phi).sin() and .cos(), on the angles whose sine and
\* cosine Decimal gives exactly: the sine of a zero is that zero
sin == (DecZero(1) :> DecZero(1)) @@ (DecZero(-1) :> DecZero(-1))

cos == (DecZero(1) :> Dec(1)) @@ (DecZero(-1) :> Dec(1))

\* a.div(2): the quotient is a times 0.5 before it is rounded
DecHalf(a) == DecMul(a, <<1, -1, <<5>>>>)

\* Decimal.max(a, b)
DecMax(a, b) ==
    IF DecIsNaN(a) \/ DecIsNaN(b) THEN DecNaN
    ELSE IF DecLt(a, b) THEN b ELSE a

\* the pi of Decimal.atan2 on the negative x axis, rounded to precision
\* digits, divided by degToRad = acos(0) / 90
HalfTurn == Dec(180)

\* the pi of Decimal.atan2 on the y axis, cut to precision + 4 digits and
\* halved, divided by degToRad: 89.999999999999999999
QuarterTurn == <<1, 1, <<8>> \o [i \in 1..(precision - 1) |-> 9]>>

\* Decimal.atan2(y, x).div(degToRad) on the axes, in degrees: the angle
\* has the sign of y, a zero y included, and the side of the x axis is
\* that of the sign of x, a zero x included
atan2(y, x) ==
    CASE DecIsNaN(y) \/ DecIsNaN(x) -> DecNaN
      [] DecIsZero(y) /\ x[1] > 0 -> DecZero(y[1])
      [] DecIsZero(y) /\ x[1] < 0 ->
            IF y[1] < 0 THEN DecNeg(HalfTurn) ELSE HalfTurn
      [] DecIsFinite(y) /\ ~DecIsZero(y) /\ DecIsZero(x) ->
            IF y[1] < 0 THEN DecNeg(QuarterTurn) ELSE QuarterTurn

\* one Decimal operation, rounded to precision digits; pow(2) is the
\* product of the number with itself
Operation(op, x, y) ==
    CASE op = "mul" -> DecMul(x, y)
      [] op = "plus" -> DecPlus(x, y)
      [] op = "sub" -> DecSub(x, y)
      [] op = "half" -> DecHalf(x)
      [] op = "max" -> DecMax(x, y)
      [] op = "sqrt" -> DecSqrt(x)
      [] op = "atan2" -> atan2(x, y)

\* the values applyEllipse starts from: the entries of the matrix, the
\* radii, the sine and the cosine of the rotation, and the numbers 0 and 4
EllipseOperands(T, ellipse) ==
    [name \in {"a", "b", "c", "d", "rx", "ry"} |->
        ToDecimal(CASE name = "a" -> T[1]
                    [] name = "b" -> T[2]
                    [] name = "c" -> T[3]
                    [] name = "d" -> T[4]
                    [] name = "rx" -> ellipse.rx
                    [] name = "ry" -> ellipse.ry)]
        @@ ("sin" :> sin[ellipse.phi]) @@ ("cos" :> cos[ellipse.phi])
        @@ ("0" :> zero) @@ ("4" :> Dec(4))

\* the operations of applyEllipse in the order Decimal carries them out:
\* the name of the result, the operation and its operands (an operation
\* on one number names it twice)
EllipseOperations ==
    << \* M[0] = rx.mul(a.mul(cos).plus(c.mul(sin)))
       <<"a cos", "mul", "a", "cos">>,
       <<"c sin", "mul", "c", "sin">>,
       <<"a cos + c sin", "plus", "a cos", "c sin">>,
       <<"M0", "mul", "rx", "a cos + c sin">>,
       \* M[1] = rx.mul(b.mul(cos).plus(d.mul(sin)))
       <<"b cos", "mul", "b", "cos">>,
       <<"d sin", "mul", "d", "sin">>,
       <<"b cos + d sin", "plus", "b cos", "d sin">>,
       <<"M1", "mul", "rx", "b cos + d sin">>,
       \* M[2] = ry.mul(c.mul(cos).sub(a.mul(sin)))
       <<"c cos", "mul", "c", "cos">>,
       <<"a sin", "mul", "a", "sin">>,
       <<"c cos - a sin", "sub", "c cos", "a sin">>,
       <<"M2", "mul", "ry", "c cos - a sin">>,
       \* M[3] = ry.mul(d.mul(cos).sub(b.mul(sin)))
       <<"d cos", "mul", "d", "cos">>,
       <<"b sin", "mul", "b", "sin">>,
       <<"d cos - b sin", "sub", "d cos", "b sin">>,
       <<"M3", "mul", "ry", "d cos - b sin">>,
       \* MMT[0] = M[0].pow(2).plus(M[2].pow(2))
       <<"M0 M0", "mul", "M0", "M0">>,
       <<"M2 M2", "mul", "M2", "M2">>,
       <<"MMT0", "plus", "M0 M0", "M2 M2">>,
       \* MMT[1] = M[0].mul(M[1]).plus(M[2].mul(M[3]))
       <<"M0 M1", "mul", "M0", "M1">>,
       <<"M2 M3", "mul", "M2", "M3">>,
       <<"MMT1", "plus", "M0 M1", "M2 M3">>,
       \* MMT[3] = M[1].pow(2).plus(M[3].pow(2))
       <<"M1 M1", "mul", "M1", "M1">>,
       <<"M3 M3", "mul", "M3", "M3">>,
       <<"MMT3", "plus", "M1 M1", "M3 M3">>,
       \* lambda = MMT[0].plus(MMT[3])
       <<"lambda", "plus", "MMT0", "MMT3">>,
       \* Delta = Decimal.max(0, lambda.pow(2).sub(
       \*             MMT[0].mul(MMT[3]).sub(MMT[1].pow(2)).mul(4))).sqrt()
       <<"lambda lambda", "mul", "lambda", "lambda">>,
       <<"MMT0 MMT3", "mul", "MMT0", "MMT3">>,
       <<"MMT1 MMT1", "mul", "MMT1", "MMT1">>,
       <<"det", "sub", "MMT0 MMT3", "MMT1 MMT1">>,
       <<"4 det", "mul", "det", "4">>,
       <<"lambda lambda - 4 det", "sub", "lambda lambda", "4 det">>,
       <<"max", "max", "0", "lambda lambda - 4 det">>,
       <<"Delta", "sqrt", "max", "max">>,
       \* lambda1 = lambda.plus(Delta).div(2)
       <<"lambda + Delta", "plus", "lambda", "Delta">>,
       <<"lambda1", "half", "lambda + Delta", "lambda + Delta">>,
       \* lambda2 = lambda.sub(Delta).div(2)
       <<"lambda - Delta", "sub", "lambda", "Delta">>,
       <<"lambda2", "half", "lambda - Delta", "lambda - Delta">>,
       \* phi = Decimal.atan2(lambda1.sub(MMT[0]), MMT[1]).div(degToRad)
       <<"lambda1 - MMT0", "sub", "lambda1", "MMT0">>,
       <<"phi", "atan2", "lambda1 - MMT0", "MMT1">>,
       \* rx: lambda1.sqrt(), ry: lambda2.sqrt()
       <<"sqrt lambda1", "sqrt", "lambda1", "lambda1">>,
       <<"sqrt lambda2", "sqrt", "lambda2", "lambda2">> >>

\* the values the operations from lo to hi leave, given the values of
\* the operands and of the results obtained so far: the first half of
\* the operations is carried out before the second
RECURSIVE Operate(_, _, _)
Operate(lo, hi, value) ==
    IF lo = hi
    THEN (EllipseOperations[lo][1] :>
             Operation(EllipseOperations[lo][2],
                       value[EllipseOperations[lo][3]],
                       value[EllipseOperations[lo][4]])) @@ value
    ELSE LET half == Operate(lo, (lo + hi) \div 2, value)
         IN  CASE DOMAIN half # {} ->
                      Operate((lo + hi) \div 2 + 1, hi, half)

\* the ellipse returned
EllipseOf(value) ==
    [rx |-> Number(value["sqrt lambda1"]),
     ry |-> Number(value["sqrt lambda2"]),
     phi |-> value["phi"]]

\* SvgTransform.applyEllipse: every product, sum, difference, half and
\* square root is rounded to precision digits
applyEllipse(T, ellipse) ==
    EllipseOf(Operate(1, Len(EllipseOperations),
                      EllipseOperands(T, ellipse)))

\* the ellipses and matrices on which the sine and the cosine of
\* applyEllipse are those of a zero and its arc tangent is taken on an
\* axis: an unrotated ellipse under a matrix that keeps or exchanges the
\* axes
ExactEllipse(T, ellipse) ==
    /\ ellipse.phi \in DOMAIN sin
    /\ \/ IsZero(T[2]) /\ IsZero(T[3])
       \/ IsZero(T[1]) /\ IsZero(T[4])

----------------------------------------------------------------------------
(* HVtoL and transformTree                                                 *)

\* Mutant of HVtoLStep: a ClosePath leaves the running point where it is.
HVtoLStepNoClose(st, draw) ==
    LET command_ == toUpperCase[draw[1]]
        isRelative == IsRelative(draw[1])
        moved == IF command_ = "Z" THEN st
                 ELSE AbsStep([x |-> st.x, y |-> st.y,
                               sx |-> st.sx, sy |-> st.sy,
                               absTree |-> <<>>], draw)
        out == CASE command_ = "H" ->
                      IF isRelative
                      THEN <<"l", [i \in 1..Len(draw[2]) |->
                                      <<draw[2][i], 0>>]>>
                      ELSE <<"L", [i \in 1..Len(draw[2]) |->
                                      <<draw[2][i], st.y>>]>>
                 [] command_ = "V" ->
                      IF isRelative
                      THEN <<"l", [i \in 1..Len(draw[2]) |->
                                      <<0, draw[2][i]>>]>>
                      ELSE <<"L", [i \in 1..Len(draw[2]) |->
                                      <<st.x, draw[2][i]>>]>>
                 [] command_ = "Z" -> <<"Z">>
                 [] OTHER -> draw
    IN  [x |-> moved.x, y |-> moved.y, sx |-> moved.sx, sy |-> moved.sy,
         outTree |-> Append(st.outTree, out)]

\* one command of the loop of HVtoL: the running point (x, y) and the
\* subpath start (sx, sy) move as in toAbsoluteCommands; H and V are
\* pushed as L / l, ClosePath as 'Z', every other command as it is
HVtoLStep(st, draw) ==
    LET command_ == toUpperCase[draw[1]]
        isRelative == IsRelative(draw[1])
        moved == AbsStep([x |-> st.x, y |-> st.y,
                          sx |-> st.sx, sy |-> st.sy,
                          absTree |-> <<>>], draw)
        out == CASE command_ = "H" ->
                      IF isRelative
                      THEN <<"l", [i \in 1..Len(draw[2]) |->
                                      <<draw[2][i], 0>>]>>
                      ELSE <<"L", [i \in 1..Len(draw[2]) |->
                                      <<draw[2][i], st.y>>]>>
                 [] command_ = "V" ->
                      IF isRelative
                      THEN <<"l", [i \in 1..Len(draw[2]) |->
                                      <<0, draw[2][i]>>]>>
                      ELSE <<"L", [i \in 1..Len(draw[2]) |->
                                      <<st.x, draw[2][i]>>]>>
                 [] command_ = "Z" -> <<"Z">>
                 [] OTHER -> draw
    IN  [x |-> moved.x, y |-> moved.y, sx |-> moved.sx, sy |-> moved.sy,
         outTree |-> Append(st.outTree, out)]

RECURSIVE HVtoLLoop(_, _)
HVtoLLoop(st, tree) ==
    IF tree = <<>> THEN st
    ELSE HVtoLLoop(HVtoLStep(st, Head(tree)), Tail(tree))

HVtoL(tree) ==
    HVtoLLoop([x |-> 0, y |-> 0, sx |-> 0, sy |-> 0, outTree |-> <<>>],
              tree).outTree

\* transform.applyRelative(c) for a relative command, transform.apply(c)
\* for an absolute one
ApplyPair(T, isRelative, coord) ==
    IF isRelative THEN applyRelative(T, coord) ELSE apply(T, coord)

\* Mutant of TransformMoveTo: every pair of a relative MoveTo is mapped
\* with applyRelative.
TransformMoveToAllRelative(T, isRelative, args) ==
    [i \in 1..Len(args) |-> ApplyPair(T, isRelative, args[i])]

\* case 'M' of transformTree: isRelative && i > 0 ? applyRelative : apply
TransformMoveTo(T, isRelative, args) ==
    [i \in 1..Len(args) |->
        IF isRelative /\ i > 1 THEN applyRelative(T, args[i])
        ELSE apply(T, args[i])]

\* Mutant of SweepFlag: the flag is kept whatever the matrix.
SweepFlagKept(T, sweep) == sweep

\* !(+arc[4] ^ +transform.orientationPreserving)
SweepFlag(T, sweep) == ~(sweep # orientationPreserving(T))

\* the arc argument the callback of case 'A' returns: the radii and the
\* angle of the ellipse, the large-arc flag, the sweep flag and the end
ArcOf(ellipse, largeArc, sweep, coord) ==
    <<ellipse.rx, ellipse.ry, ellipse.phi, largeArc, sweep, coord>>

\* one arc argument in case 'A' of transformTree
TransformArc(T, isRelative, arc) ==
    ArcOf(applyEllipse(T, [rx |-> arc[1], ry |-> arc[2], phi |-> arc[3]]),
          arc[4], SweepFlag(T, arc[5]), ApplyPair(T, isRelative, arc[6]))

\* the callback of tree.map in transformTree
TransformCommand(T, draw) ==
    LET command == draw[1]
        command_ == toUpperCase[command]
        isRelative == IsRelative(command)
    IN  CASE command_ = "M" ->
                <<command, TransformMoveTo(T, isRelative, draw[2])>>
          [] command_ \in {"L", "T"} ->
                <<command, [i \in 1..Len(draw[2]) |->
                               ApplyPair(T, isRelative, draw[2][i])]>>
          [] command_ = "H" ->
                <<command, [i \in 1..Len(draw[2]) |->
                               ApplyPair(T, isRelative,
                                         <<draw[2][i], 0>>)[1]]>>
          [] command_ = "V" ->
                <<command, [i \in 1..Len(draw[2]) |->
                               ApplyPair(T, isRelative,
                                         <<0, draw[2][i]>>)[2]]>>
          [] command_ = "Z" -> <<command>>
          [] command_ \in {"C", "S", "Q"} ->
                <<command, [i \in 1..Len(draw[2]) |->
                               [j \in 1..Len(draw[2][i]) |->
                                   ApplyPair(T, isRelative,
                                             draw[2][i][j])]]>>
          [] command_ = "A" ->
                <<command, [i \in 1..Len(draw[2]) |->
                               TransformArc(T, isRelative, draw[2][i])]>>

\* transformTree(tree, transform); an absent transform is <<>>, a present
\* one is <<matrix>>
transformTree(tree, transform) ==
    IF transform = <<>> THEN tree
    ELSE LET T == transform[1]
             tree_ == IF hasRotation(T) THEN HVtoL(tree) ELSE tree
         IN  [i \in 1..Len(tree_) |-> TransformCommand(T, tree_[i])]

----------------------------------------------------------------------------
(* The shape constructors of SvgPath                                       *)

\* the radii of fromEllipse and fromRect once 'auto' (here <<>>) is
\* resolved: an 'auto' radius takes the other one, two 'auto' radii are 0
Radii(rx_, ry_) ==
    IF rx_ = <<>> /\ ry_ # <<>> THEN <<ry_[1], ry_[1]>>
    ELSE IF rx_ # <<>> /\ ry_ = <<>> THEN <<rx_[1], rx_[1]>>
    ELSE IF rx_ = <<>> /\ ry_ = <<>> THEN <<0, 0>>
    ELSE <<rx_[1], ry_[1]>>

\* size.div(2): half an odd size is a Decimal with one fraction digit
Half(size) == Number(DecDiv(size, 2))

\* radius.lte(size.div(2))
WithinHalf(radius, size) == DecLte(Dec(radius), DecDiv(size, 2))

\* the tree fromCircle hands to the constructor
CircleTreeOf(cx, cy, r) ==
    IF r <= 0 THEN << <<"M", <<<<cx, cy>>>>>> >>
    ELSE << <<"M", <<<<cx - r, cy>>>>>>,
            <<"a", << <<r, r, zero, TRUE, TRUE, <<r, r>>>>,
                      <<r, r, zero, FALSE, TRUE, <<-r, -r>>>> >>>>,
            <<"Z">> >>

\* the tree fromEllipse hands to the constructor
EllipseTreeOf(cx, cy, rx_, ry_) ==
    LET rx == Radii(rx_, ry_)[1]
        ry == Radii(rx_, ry_)[2]
    IN  IF rx <= 0 \/ ry <= 0 THEN << <<"M", <<<<cx, cy>>>>>> >>
        ELSE << <<"M", <<<<cx - rx, cy>>>>>>,
                <<"a", << <<rx, ry, zero, TRUE, TRUE, <<rx, ry>>>>,
                          <<rx, ry, zero, FALSE, TRUE, <<-rx, -ry>>>> >>>>,
                <<"Z">> >>

\* Mutant of RectTreeOf: the last arc of the rounded rectangle ends one
\* radius short of the start of the path.
RectTreeOfOpen(x, y, width, height, rx_, ry_) ==
    LET rx == Radii(rx_, ry_)[1]
        ry == Radii(rx_, ry_)[2]
    IN  IF width <= 0 \/ height <= 0 THEN << <<"M", <<<<x, y>>>>>> >>
        ELSE << <<"M", <<<<x + rx, y>>>>>>,
                <<"h", <<width - rx * 2>>>>,
                <<"a", << <<rx, ry, zero, FALSE, TRUE, <<rx, ry>>>> >>>>,
                <<"v", <<height - ry * 2>>>>,
                <<"a", << <<rx, ry, zero, FALSE, TRUE, <<-rx, ry>>>> >>>>,
                <<"h", <<rx * 2 - width>>>>,
                <<"a", << <<rx, ry, zero, FALSE, TRUE, <<-rx, -ry>>>> >>>>,
                <<"v", <<ry * 2 - height>>>>,
                <<"a", << <<rx, ry, zero, FALSE, TRUE, <<0, -ry>>>> >>>>,
                <<"Z">> >>

\* the tree fromRect hands to the constructor, branch by branch
RectTreeOf(x, y, width, height, rx_, ry_) ==
    LET rx == Radii(rx_, ry_)[1]
        ry == Radii(rx_, ry_)[2]
    IN  IF width <= 0 \/ height <= 0 THEN << <<"M", <<<<x, y>>>>>> >>
        ELSE IF rx <= 0 \/ ry <= 0
        THEN << <<"M", <<<<x, y>>>>>>,
                <<"h", <<width>>>>, <<"v", <<height>>>>,
                <<"h", <<-width>>>>, <<"v", <<-height>>>>,
                <<"Z">> >>
        ELSE IF WithinHalf(rx, width) /\ WithinHalf(ry, height)
        THEN << <<"M", <<<<x + rx, y>>>>>>,
                <<"h", <<width - rx * 2>>>>,
                <<"a", << <<rx, ry, zero, FALSE, TRUE, <<rx, ry>>>> >>>>,
                <<"v", <<height - ry * 2>>>>,
                <<"a", << <<rx, ry, zero, FALSE, TRUE, <<-rx, ry>>>> >>>>,
                <<"h", <<rx * 2 - width>>>>,
                <<"a", << <<rx, ry, zero, FALSE, TRUE, <<-rx, -ry>>>> >>>>,
                <<"v", <<ry * 2 - height>>>>,
                <<"a", << <<rx, ry, zero, FALSE, TRUE, <<rx, -ry>>>> >>>>,
                <<"Z">> >>
        ELSE IF WithinHalf(rx, width)
        THEN << <<"M", <<<<x + rx, y>>>>>>,
                <<"h", <<width - rx * 2>>>>,
                <<"a", << <<rx, Half(height), zero, FALSE, TRUE,
                            <<0, height>>>> >>>>,
                <<"h", <<rx * 2 - width>>>>,
                <<"a", << <<rx, Half(height), zero, FALSE, TRUE,
                            <<0, -height>>>> >>>>,
                <<"Z">> >>
        ELSE IF WithinHalf(ry, height)
        THEN << <<"M", <<<<x + width, y + ry>>>>>>,
                <<"v", <<height - ry * 2>>>>,
                <<"a", << <<Half(width), ry, zero, FALSE, TRUE,
                            <<-width, 0>>>> >>>>,
                <<"v", <<ry * 2 - height>>>>,
                <<"a", << <<Half(width), ry, zero, FALSE, TRUE,
                            <<width, 0>>>> >>>>,
                <<"Z">> >>
        ELSE << <<"M", <<<<x + width,
                             Number(DecPlus(Dec(y),
                                            DecDiv(height, 2)))>>>>>>,
                <<"a", << <<Half(width), Half(height), zero, FALSE, TRUE,
                            <<-width, 0>>>>,
                          <<Half(width), Half(height), zero, FALSE, TRUE,
                            <<width, 0>>>> >>>>,
                <<"Z">> >>

\* the tree fromLine hands to the constructor
LineTreeOf(x1, y1, x2, y2) ==
    << <<"M", <<<<x1, y1>>, <<x2, y2>>>>>> >>

\* the tree the parser builds from `M${points}Z`, points being one or
\* more coordinate pairs
PolygonTreeOf(points) == << <<"M", points>>, <<"Z">> >>

\* Mutant of PolylineTreeOf: the points are joined by a LineTo with no
\* MoveTo before it.
PolylineTreeOfLineTo(points) == << <<"L", points>> >>

\* the tree the parser builds from `M${points}`
PolylineTreeOf(points) == << <<"M", points>> >>

----------------------------------------------------------------------------
(* Inputs                                                                  *)

\* first commands of a tree: the grammar starts every non-empty path with
\* a moveto (svg_path_start)
MoveAtoms ==
    { <<"M", <<<<2, 3>>>>>>,
      <<"M", <<<<13, 17>>, <<5, -4>>>>>>, <<"m", <<<<13, 17>>, <<5, -4>>>>>> }

\* the drawto commands that may follow
DrawAtoms ==
    MoveAtoms \cup
    { <<"Z">>, <<"z">>,
      <<"L", <<<<5, 7>>, <<11, 13>>>>>>, <<"l", <<<<5, 7>>, <<11, 13>>>>>>,
      <<"T", <<<<4, -6>>, <<1, 9>>>>>>, <<"t", <<<<4, -6>>, <<1, 9>>>>>>,
      <<"H", <<5, 7>>>>, <<"h", <<5, 7>>>>,
      <<"V", <<-3, 8>>>>, <<"v", <<-3, 8>>>>,
      <<"C", << <<<<2, 3>>, <<5, 7>>, <<29, 31>>>>,
                <<<<1, 1>>, <<2, -2>>, <<3, -5>>>> >>>>,
      <<"c", << <<<<2, 3>>, <<5, 7>>, <<29, 31>>>>,
                <<<<1, 1>>, <<2, -2>>, <<3, -5>>>> >>>>,
      <<"S", << <<<<7, 1>>, <<3, 9>>>>, <<<<-2, 6>>, <<4, 4>>>> >>>>,
      <<"s", << <<<<7, 1>>, <<3, 9>>>>, <<<<-2, 6>>, <<4, 4>>>> >>>>,
      <<"Q", << <<<<6, 2>>, <<8, -1>>>>, <<<<1, 5>>, <<-7, 3>>>> >>>>,
      <<"q", << <<<<6, 2>>, <<8, -1>>>>, <<<<1, 5>>, <<-7, 3>>>> >>>>,
      <<"A", << <<28, 23, zero, FALSE, FALSE, <<17, 31>>>>,
                <<29, 30, Dec(30), TRUE, FALSE, <<-6, 10>>>> >>>>,
      <<"a", << <<28, 23, zero, FALSE, FALSE, <<17, 31>>>>,
                <<29, 30, Dec(30), TRUE, FALSE, <<-6, 10>>>> >>>> }

RECURSIVE DrawSeqs(_)
DrawSeqs(n) ==
    IF n <= 0 THEN {<<>>}
    ELSE DrawSeqs(n - 1) \cup
         {Append(t, a) : t \in DrawSeqs(n - 1), a \in DrawAtoms}

\* the trees the parser can build with at most MaxCmds commands
Trees ==
    {<<>>} \cup
    (IF MaxCmds = 0 THEN {}
     ELSE {<<m>> \o t : m \in MoveAtoms, t \in DrawSeqs(MaxCmds - 1)})

\* a 10 x 10 square drawn from (px, py), as in the tests of the reorder
Square(px, py) ==
    << <<"M", <<<<px, py>>>>>>, <<"h", <<10>>>>, <<"v", <<10>>>>,
       <<"h", <<-10>>>>, <<"v", <<-10>>>>, <<"Z">> >>

\* the trees of the paths handed to the Reorder Engine, a collection
\* taking its paths from one of these sets: three squares, two of them
\* at the same distance from (0, 45); an open line, an empty path and a
\* square; three paths whose centroids (1/3, 0), (5/3, 0) and (-1, 0)
\* make the rounding of the quotients decide between the last two
ReorderTrees ==
    { { Square(45, 45), Square(90, 0), Square(0, 90) },
      { << <<"M", <<<<40, 40>>>>>>, <<"L", <<<<0, 80>>>>>> >>,
        <<>>,
        Square(45, 45) },
      { << <<"M", <<<<0, 0>>, <<1, 0>>, <<0, 0>>>>>> >>,
        << <<"M", <<<<0, 0>>, <<5, 0>>, <<0, 0>>>>>> >>,
        << <<"M", <<<<-1, 0>>>>>> >> } }

RECURSIVE TreeSeqs(_, _)
TreeSeqs(trees, n) ==
    IF n <= 0 THEN {<<>>}
    ELSE TreeSeqs(trees, n - 1) \cup
         {Append(s, t) : s \in TreeSeqs(trees, n - 1), t \in trees}

Origins == { <<0, 0>>, <<0, 45>> }

----------------------------------------------------------------------------
(* State                                                                   *)

VARIABLES
    \* one SvgPath object: its tree and its memoised fields; an undefined
    \* field is <<>> and a defined one is <<value>>
    _tree, _absoluteTree, _start, _end, _centroid,
    \* the number of times the loop of toAbsoluteCommands ran on the
    \* SvgPath object
    passes,
    \* the outcome of the last call made on the SvgPath object
    ret,
    \* one call of sortPathsByRelativePosition: the trees of the Path
    \* objects of the collection as it was handed over (object i has tree
    \* input[i]), the caller's collection (mutated by splice), the output
    \* list, the reference point, the arguments and the position in the code
    input, paths, sortedPaths, c, strategy, origin, pc, error,
    \* the matrix of the SvgTransform object the caller holds, the number
    \* of fromString calls that built it, and the arguments of the last
    \* call made
    transform, depth, args,
    \* one run of the command-line front end: process.argv, the position
    \* in the code, the exit code of the process (<<>> while it runs), the
    \* stream that got the usage line, where the input was read from, the
    \* number of documents reorderSvgPaths returned and where the output
    \* was written
    argv, step, exitCode, usage, inputFrom, result, outputTo,
    \* one document under construction by SvgDocument.fromString: the
    \* registry of the paths of the elements that carry an id (<<>> for
    \* an id not registered, <<list>> for a registered one), the _href,
    \* the _transform and the _result of every UnresolvedSvgPath object
    \* (<<>> while undefined), the calls of resolve under way, the
    \* position in the list of the rendered paths, what the calls made on
    \* it returned so far, the paths of the document pushed (<<>> before
    \* the push), and the error that fromString threw (<<>> if none)
    defs, _href, _transform, _result, stack, todo, resolved, structure,
    failure

pathVars == <<_tree, _absoluteTree, _start, _end, _centroid, passes, ret>>

reorderVars == <<input, paths, sortedPaths, c, strategy, origin, pc, error>>

transformVars == <<transform, depth, args>>

appVars == <<argv, step, exitCode, usage, inputFrom, result, outputTo>>

documentVars ==
    <<defs, _href, _transform, _result, stack, todo, resolved, structure,
      failure>>

vars == <<_tree, _absoluteTree, _start, _end, _centroid, passes, ret,
          input, paths, sortedPaths, c, strategy, origin, pc, error,
          transform, depth, args,
          argv, step, exitCode, usage, inputFrom, result, outputTo,
          defs, _href, _transform, _result, stack, todo, resolved, structure,
          failure>>

NoCall == [op |-> "none", thrown |-> FALSE, value |-> <<>>]

Returned(op, value) == [op |-> op, thrown |-> FALSE, value |-> value]

Thrown(op) == [op |-> op, thrown |-> TRUE, value |-> <<>>]

\* no SvgPath object under test
PathIdle ==
    /\ _tree = <<>>
    /\ _absoluteTree = <<>>
    /\ _start = <<>>
    /\ _end = <<>>
    /\ _centroid = <<>>
    /\ passes = 0
    /\ ret = NoCall

\* no reorder call under way
ReorderIdle ==
    /\ input = <<>>
    /\ paths = <<>>
    /\ sortedPaths = <<>>
    /\ c = DecPair(<<0, 0>>)
    /\ strategy = CENTROID
    /\ origin = <<0, 0>>
    /\ pc = "idle"
    /\ error = ""

\* no SvgTransform under test: SvgTransform.IDENTITY and no call made
TransformIdle ==
    /\ transform = identity
    /\ depth = 0
    /\ args = <<>>

\* the front end is not running
AppIdle ==
    /\ argv = <<>>
    /\ step = "idle"
    /\ exitCode = <<>>
    /\ usage = "none"
    /\ inputFrom = <<>>
    /\ result = <<>>
    /\ outputTo = <<>>

\* no document under construction
DocumentIdle ==
    /\ defs = <<>>
    /\ _href = <<>>
    /\ _transform = <<>>
    /\ _result = <<>>
    /\ stack = <<>>
    /\ todo = 0
    /\ resolved = <<>>
    /\ structure = <<>>
    /\ failure = <<>>

----------------------------------------------------------------------------
(* The SvgPath object                                                      *)

\* new SvgPath(tree) with no transform: transformTree returns the tree
InitPath ==
    /\ _tree \in Trees
    /\ _absoluteTree = <<>>
    /\ _start = <<>>
    /\ _end = <<>>
    /\ _centroid = <<>>
    /\ passes = 0
    /\ ret = NoCall
    /\ ReorderIdle
    /\ TransformIdle
    /\ AppIdle
    /\ DocumentIdle

\* the passes one call of toAbsoluteCommands makes over the commands: none
\* when the memoised tree is there (an empty array is truthy)
PassAlways(absoluteTree) == 1

Pass(absoluteTree) == IF absoluteTree # <<>> THEN 0 ELSE 1

\* toAbsoluteCommands(): the memoised tree if there is one, else the pass
CallToAbsoluteCommands ==
    /\ _absoluteTree' =
          IF _absoluteTree # <<>> THEN _absoluteTree
          ELSE <<toAbsoluteCommands(_tree)>>
    /\ passes' = passes + Pass(_absoluteTree)
    /\ ret' = Returned("toAbsoluteCommands", _absoluteTree'[1])
    /\ UNCHANGED <<_tree, _start, _end, _centroid>>
    /\ UNCHANGED reorderVars
    /\ UNCHANGED transformVars
    /\ UNCHANGED appVars
    /\ UNCHANGED documentVars

\* get start
GetStart ==
    /\ IF _start # <<>>
       THEN /\ ret' = Returned("start", _start[1])
            /\ UNCHANGED _start
       ELSE IF startThrows(_tree)
       THEN /\ ret' = Thrown("start")
            /\ UNCHANGED _start
       ELSE /\ _start' = <<start(_tree)>>
            /\ ret' = Returned("start", start(_tree))
    /\ UNCHANGED <<_tree, _absoluteTree, _end, _centroid, passes>>
    /\ UNCHANGED reorderVars
    /\ UNCHANGED transformVars
    /\ UNCHANGED appVars
    /\ UNCHANGED documentVars

\* get end: fills _absoluteTree first, and _start when the last command
\* is a ClosePath
GetEnd ==
    /\ IF _end # <<>>
       THEN /\ ret' = Returned("end", _end[1])
            /\ UNCHANGED <<_absoluteTree, _start, _end, passes>>
       ELSE /\ _absoluteTree' =
                  IF _absoluteTree # <<>> THEN _absoluteTree
                  ELSE <<toAbsoluteCommands(_tree)>>
            /\ passes' = passes + Pass(_absoluteTree)
            /\ IF endThrows(_tree)
               THEN /\ ret' = Thrown("end")
                    /\ UNCHANGED <<_start, _end>>
               ELSE /\ _end' = <<end(_tree)>>
                    /\ ret' = Returned("end", end(_tree))
                    /\ _start' =
                          IF Last(_absoluteTree'[1])[1] = "Z" /\ _start = <<>>
                          THEN <<start(_tree)>> ELSE _start
    /\ UNCHANGED <<_tree, _centroid>>
    /\ UNCHANGED reorderVars
    /\ UNCHANGED transformVars
    /\ UNCHANGED appVars
    /\ UNCHANGED documentVars

\* get centroid: fills _absoluteTree first
GetCentroid ==
    /\ IF _centroid # <<>>
       THEN /\ ret' = Returned("centroid", _centroid[1])
            /\ UNCHANGED <<_absoluteTree, _centroid, passes>>
       ELSE /\ _absoluteTree' =
                  IF _absoluteTree # <<>> THEN _absoluteTree
                  ELSE <<toAbsoluteCommands(_tree)>>
            /\ passes' = passes + Pass(_absoluteTree)
            /\ _centroid' = <<centroid(_tree)>>
            /\ ret' = Returned("centroid", centroid(_tree))
    /\ UNCHANGED <<_tree, _start, _end>>
    /\ UNCHANGED reorderVars
    /\ UNCHANGED transformVars
    /\ UNCHANGED appVars
    /\ UNCHANGED documentVars

NextPath ==
    \/ CallToAbsoluteCommands
    \/ GetStart
    \/ GetEnd
    \/ GetCentroid

SpecPath == InitPath /\ [][NextPath]_vars

----------------------------------------------------------------------------
(* extractSubpaths and toString on one SvgPath object                      *)

\* trees whose first command is not a moveto: the constructor takes any
\* SvgPathTree, the grammar builds none of these
InvalidStartTrees ==
    {<<a>> \o t : a \in DrawAtoms \ MoveAtoms, t \in DrawSeqs(MaxCmds - 2)}

ThrownWith(op, message) ==
    [op |-> op, thrown |-> TRUE, value |-> <<message>>]

\* 'M0 0 m 1 2 3 4 m 1 1': a relative MoveTo with a further pair, and a
\* relative MoveTo after it
ImplicitLineToTree ==
    << <<"M", <<<<0, 0>>>>>>, <<"m", <<<<1, 2>>, <<3, 4>>>>>>,
       <<"m", <<<<1, 1>>>>>> >>

\* new SvgPath(tree) with no transform
InitSubpaths ==
    /\ _tree \in Trees \cup InvalidStartTrees \cup {ImplicitLineToTree}
    /\ _absoluteTree = <<>>
    /\ _start = <<>>
    /\ _end = <<>>
    /\ _centroid = <<>>
    /\ passes = 0
    /\ ret = NoCall
    /\ ReorderIdle
    /\ TransformIdle
    /\ AppIdle
    /\ DocumentIdle

\* extractSubpaths(): the trees of the SvgPath objects returned
CallExtractSubpaths ==
    /\ ret' = IF extractSubpathsThrows(_tree)
              THEN ThrownWith("extractSubpaths", "Invalid start command")
              ELSE Returned("extractSubpaths", extractSubpaths(_tree))
    /\ UNCHANGED <<_tree, _absoluteTree, _start, _end, _centroid, passes>>
    /\ UNCHANGED reorderVars
    /\ UNCHANGED transformVars
    /\ UNCHANGED appVars
    /\ UNCHANGED documentVars

\* toString()
CallToString ==
    /\ ret' = Returned("toString", toString(_tree))
    /\ UNCHANGED <<_tree, _absoluteTree, _start, _end, _centroid, passes>>
    /\ UNCHANGED reorderVars
    /\ UNCHANGED transformVars
    /\ UNCHANGED appVars
    /\ UNCHANGED documentVars

NextSubpaths ==
    \/ CallExtractSubpaths
    \/ CallToString

SpecSubpaths == InitSubpaths /\ [][NextSubpaths]_vars

----------------------------------------------------------------------------
(* SvgTransform objects and the paths constructed with them                *)

\* the points handed to apply and applyRelative
Points == { <<0, 0>>, <<20, 0>>, <<0, 20>>, <<3, -7>> }

\* the radii 1.23456 and 1.1, whose squares the arithmetic of applyEllipse
\* rounds
LongRadius == <<1, 0, <<1, 2, 3, 4, 5, 6>>>>

ShortRadius == <<1, 0, <<1, 1>>>>

\* the list of the ellipses handed to applyEllipse: rx > ry, rx < ry, a
\* circle, radii that are zero or negative, and radii that are no integers
Ellipses ==
    << [rx |-> 3, ry |-> 2, phi |-> zero], [rx |-> 2, ry |-> 5, phi |-> zero],
       [rx |-> 2, ry |-> 2, phi |-> zero], [rx |-> 0, ry |-> 5, phi |-> zero],
       [rx |-> 3, ry |-> 0, phi |-> zero], [rx |-> 0, ry |-> 0, phi |-> zero],
       [rx |-> -3, ry |-> 2, phi |-> zero],
       [rx |-> LongRadius, ry |-> ShortRadius, phi |-> zero] >>

\* The trees handed to the constructor together with a transform.
\* H and V before and after a ClosePath.
StairsTree ==
    << <<"M", <<<<2, 3>>>>>>, <<"h", <<5, 7>>>>, <<"V", <<-3, 8>>>>,
       <<"z">>, <<"v", <<4>>>>, <<"H", <<6>>>> >>

\* a relative MoveTo with two pairs at the start
RelativeStartTree ==
    << <<"m", <<<<13, 17>>, <<5, -4>>>>>>,
       <<"l", <<<<5, 7>>, <<11, 13>>>>>>, <<"H", <<5>>>>, <<"Z">>,
       <<"V", <<9>>>>, <<"L", <<<<1, 2>>>>>> >>

\* the curves, in both cases
CurvesTree ==
    << <<"M", <<<<2, 3>>>>>>,
       <<"C", << <<<<2, 3>>, <<5, 7>>, <<29, 31>>>> >>>>,
       <<"s", << <<<<7, 1>>, <<3, 9>>>>, <<<<-2, 6>>, <<4, 4>>>> >>>>,
       <<"h", <<4>>>>,
       <<"Q", << <<<<6, 2>>, <<8, -1>>>> >>>>,
       <<"t", <<<<4, -6>>, <<1, 9>>>>>>, <<"v", <<2>>>> >>

RelativeCurvesTree ==
    << <<"m", <<<<1, 2>>>>>>,
       <<"c", << <<<<2, 3>>, <<5, 7>>, <<29, 31>>>> >>>>,
       <<"S", << <<<<7, 1>>, <<3, 9>>>> >>>>,
       <<"q", << <<<<6, 2>>, <<8, -1>>>>, <<<<1, 5>>, <<-7, 3>>>> >>>>,
       <<"T", <<<<4, -6>>>>>>, <<"V", <<3>>>>, <<"z">>, <<"h", <<2>>>> >>

\* arcs with rx > ry and with rx < ry, with each value of the flags
ArcsTree ==
    << <<"M", <<<<2, 3>>>>>>,
       <<"A", << <<3, 2, zero, FALSE, TRUE, <<17, 31>>>>,
                 <<2, 5, zero, TRUE, FALSE, <<-6, 10>>>> >>>>,
       <<"a", << <<2, 5, zero, TRUE, TRUE, <<4, 4>>>> >>>>,
       <<"H", <<1>>>> >>

\* an arc with rx > ry, neither an integer: 'M0 0A1.23456 1.1 0 0 1 3 4'
LongArcTree ==
    << <<"M", <<<<0, 0>>>>>>,
       <<"A", << <<LongRadius, ShortRadius, zero, FALSE, TRUE,
                   <<3, 4>>>> >>>> >>

\* an arc of a circle
CircleTree ==
    << <<"M", <<<<1, 1>>>>>>,
       <<"a", << <<2, 2, zero, FALSE, FALSE, <<3, 3>>>> >>>> >>

\* a relative MoveTo with two pairs after a ClosePath, then h and V
TwoSubpathsTree ==
    << <<"M", <<<<2, 3>>>>>>, <<"L", <<<<5, 7>>>>>>, <<"Z">>,
       <<"m", <<<<1, 2>>, <<3, 4>>>>>>, <<"h", <<5>>>>, <<"V", <<7>>>> >>

TransformTrees ==
    { <<>>, << <<"M", <<<<13, 17>>, <<5, -4>>>>>> >>,
      StairsTree, RelativeStartTree, CurvesTree, RelativeCurvesTree,
      ArcsTree, LongArcTree, CircleTree, TwoSubpathsTree }

\* the arc arguments of a tree
ArcsOf(tree) ==
    UNION { {tree[i][2][j] : j \in 1..Len(tree[i][2])} :
            i \in {k \in 1..Len(tree) : toUpperCase[tree[k][1]] = "A"} }

\* SvgTransform.IDENTITY, no path constructed and no call made
InitTransform ==
    /\ transform = identity
    /\ depth = 0
    /\ args = <<>>
    /\ PathIdle
    /\ ReorderIdle
    /\ AppIdle
    /\ DocumentIdle

\* SvgTransform.fromString(string, CTM) and SvgTransform.fromString(string)
\* whose CTM is then SvgTransform.IDENTITY; the caller holds the result
FromString ==
    /\ depth < MaxDepth
    /\ \E string \in TransformStrings, CTM \in {<<>>, <<transform>>} :
          /\ transform' = fromString(string,
                                     IF CTM = <<>> THEN identity
                                     ELSE CTM[1])
          /\ args' = <<string, CTM>>
    /\ depth' = depth + 1
    /\ ret' = Returned("fromString", <<transform'>>)
    /\ UNCHANGED <<_tree, _absoluteTree, _start, _end, _centroid, passes>>
    /\ UNCHANGED reorderVars
    /\ UNCHANGED appVars
    /\ UNCHANGED documentVars

Apply ==
    /\ \E coord \in Points :
          /\ ret' = Returned("apply", apply(transform, coord))
          /\ args' = <<coord>>
    /\ UNCHANGED <<transform, depth>>
    /\ UNCHANGED <<_tree, _absoluteTree, _start, _end, _centroid, passes>>
    /\ UNCHANGED reorderVars
    /\ UNCHANGED appVars
    /\ UNCHANGED documentVars

ApplyRelative ==
    /\ \E coord \in Points :
          /\ ret' = Returned("applyRelative", applyRelative(transform, coord))
          /\ args' = <<coord>>
    /\ UNCHANGED <<transform, depth>>
    /\ UNCHANGED <<_tree, _absoluteTree, _start, _end, _centroid, passes>>
    /\ UNCHANGED reorderVars
    /\ UNCHANGED appVars
    /\ UNCHANGED documentVars

ApplyEllipse ==
    /\ \E i \in DOMAIN Ellipses :
          LET ellipse == Ellipses[i]
          IN  /\ ExactEllipse(transform, ellipse)
              /\ ret' = Returned("applyEllipse",
                                 applyEllipse(transform, ellipse))
              /\ args' = <<ellipse>>
    /\ UNCHANGED <<transform, depth>>
    /\ UNCHANGED <<_tree, _absoluteTree, _start, _end, _centroid, passes>>
    /\ UNCHANGED reorderVars
    /\ UNCHANGED appVars
    /\ UNCHANGED documentVars

GetHasRotation ==
    /\ ret' = Returned("hasRotation", hasRotation(transform))
    /\ args' = <<>>
    /\ UNCHANGED <<transform, depth>>
    /\ UNCHANGED <<_tree, _absoluteTree, _start, _end, _centroid, passes>>
    /\ UNCHANGED reorderVars
    /\ UNCHANGED appVars
    /\ UNCHANGED documentVars

GetOrientationPreserving ==
    /\ ret' = Returned("orientationPreserving",
                       orientationPreserving(transform))
    /\ args' = <<>>
    /\ UNCHANGED <<transform, depth>>
    /\ UNCHANGED <<_tree, _absoluteTree, _start, _end, _centroid, passes>>
    /\ UNCHANGED reorderVars
    /\ UNCHANGED appVars
    /\ UNCHANGED documentVars

\* new SvgPath(tree, transform) and new SvgPath(tree): the tree of the
\* object constructed
NewSvgPath ==
    /\ \E tree \in TransformTrees, T \in {<<>>, <<transform>>} :
          /\ \A arc \in ArcsOf(tree) :
                T # <<>> => ExactEllipse(T[1], [rx |-> arc[1], ry |-> arc[2],
                                                phi |-> arc[3]])
          /\ ret' = Returned("SvgPath", transformTree(tree, T))
          /\ args' = <<tree, T>>
    /\ UNCHANGED <<transform, depth>>
    /\ UNCHANGED <<_tree, _absoluteTree, _start, _end, _centroid, passes>>
    /\ UNCHANGED reorderVars
    /\ UNCHANGED appVars
    /\ UNCHANGED documentVars

NextTransform ==
    \/ FromString
    \/ Apply
    \/ ApplyRelative
    \/ ApplyEllipse
    \/ GetHasRotation
    \/ GetOrientationPreserving
    \/ NewSvgPath

SpecTransform == InitTransform /\ [][NextTransform]_vars

----------------------------------------------------------------------------
(* SvgPath objects built by the static constructors                        *)

\* the positions, sizes and radii the constructors are called with; <<>>
\* is 'auto'
Corners == { <<0, 0>>, <<23, 29>> }

\* an odd size among them: half of it is no integer
Sizes == {0, 4, 5, 6}

CircleRadii == {-1, 0, 11}

RectRadii == { <<>>, <<-1>>, <<0>>, <<1>>, <<2>>, <<5>> }

PointLists ==
    { << <<0, 0>> >>, << <<0, 0>>, <<20, 0>> >>,
      << <<0, 0>>, <<20, 0>>, <<3, -7>> >> }

\* the transform argument: absent, or built by SvgTransform.fromString
\* from a translation, a scaling, a reflection, a quarter turn or a
\* matrix that rotates, skews and reflects
ShapeTransforms ==
    {<<>>} \cup
    {<<fromString(<<string>>, identity)>> :
        string \in {"translate(3 -2)", "scale(2)", "scale(-1 1)",
                    "matrix(0 1 -1 0 0 0)", "matrix(1 -2 3 4 -5 -6)"}}

\* the arcs of the tree are among the ellipses applyEllipse is modelled on
ExactArcs(tree, T) ==
    \A arc \in ArcsOf(tree) :
        T # <<>> => ExactEllipse(T[1], [rx |-> arc[1], ry |-> arc[2],
                                        phi |-> arc[3]])

\* the first point of the tree of fromRect is within the integer
\* arithmetic the running point is kept in: it is not on an odd height
\* where the radii reach beyond both halves
ExactStart(tree) ==
    IsInteger(tree[1][2][1][1]) /\ IsInteger(tree[1][2][1][2])

\* new SvgPath(tree, transform) called by the static constructor named:
\* the one object of the behaviour, none of its memoised fields set
Construct(name, params, tree, T) ==
    /\ ret = NoCall
    /\ ExactArcs(tree, T)
    /\ _tree' = transformTree(tree, T)
    /\ _absoluteTree' = <<>>
    /\ _start' = <<>>
    /\ _end' = <<>>
    /\ _centroid' = <<>>
    /\ passes' = 0
    /\ args' = <<name, params, T>>
    /\ ret' = Returned(name, _tree')
    /\ UNCHANGED <<transform, depth>>
    /\ UNCHANGED reorderVars
    /\ UNCHANGED appVars
    /\ UNCHANGED documentVars

InitShapes ==
    /\ PathIdle
    /\ ReorderIdle
    /\ TransformIdle
    /\ AppIdle
    /\ DocumentIdle

FromCircle ==
    \E corner \in Corners, r \in CircleRadii, T \in ShapeTransforms :
        Construct("fromCircle", <<corner[1], corner[2], r>>,
                  CircleTreeOf(corner[1], corner[2], r), T)

FromEllipse ==
    \E corner \in Corners, rx_ \in RectRadii, ry_ \in RectRadii,
       T \in ShapeTransforms :
        Construct("fromEllipse", <<corner[1], corner[2], rx_, ry_>>,
                  EllipseTreeOf(corner[1], corner[2], rx_, ry_), T)

FromRect ==
    /\ ret = NoCall
    /\ \E corner \in Corners, width \in Sizes, height \in Sizes,
          rx_ \in RectRadii, ry_ \in RectRadii, T \in ShapeTransforms :
          LET tree == RectTreeOf(corner[1], corner[2], width, height,
                                 rx_, ry_)
          IN  /\ ExactStart(tree)
              /\ Construct("fromRect",
                           <<corner[1], corner[2], width, height, rx_, ry_>>,
                           tree, T)

FromLine ==
    \E p1 \in Points, p2 \in Points, T \in ShapeTransforms :
        Construct("fromLine", <<p1[1], p1[2], p2[1], p2[2]>>,
                  LineTreeOf(p1[1], p1[2], p2[1], p2[2]), T)

FromPolygon ==
    \E points \in PointLists, T \in ShapeTransforms :
        Construct("fromPolygon", points, PolygonTreeOf(points), T)

FromPolyline ==
    \E points \in PointLists, T \in ShapeTransforms :
        Construct("fromPolyline", points, PolylineTreeOf(points), T)

\* SvgPath.fromString(path, transform), path being the text of the tree
FromPathString ==
    \E tree \in TransformTrees \cup {<<>>}, T \in ShapeTransforms :
        Construct("fromString", tree, tree, T)

NextShapes ==
    \/ FromCircle
    \/ FromEllipse
    \/ FromRect
    \/ FromLine
    \/ FromPolygon
    \/ FromPolyline
    \/ FromPathString
    \/ CallToAbsoluteCommands
    \/ CallExtractSubpaths

SpecShapes == InitShapes /\ [][NextShapes]_vars

----------------------------------------------------------------------------
(* sortPathsByRelativePosition and SvgDocument.reorderPaths                *)

\* the tree of every remaining path, in the order of the collection
RemainingTrees == [i \in 1..Len(paths) |-> input[paths[i]]]

\* StrategyClosestFunctionMap[strategy](paths, c)
Closest ==
    IF strategy = CENTROID
    THEN findClosestPathToPointByCentroid(RemainingTrees, c)
    ELSE findClosestPathToPointByStartEnd(RemainingTrees, c)

\* the state at the entry of sortPathsByRelativePosition: a collection of
\* distinct Path objects 1..n, a strategy tag and an origin
Init ==
    /\ input \in UNION {TreeSeqs(trees, MaxPaths) : trees \in ReorderTrees}
    /\ paths = [i \in 1..Len(input) |-> i]
    /\ sortedPaths = <<>>
    /\ strategy \in Strategies
    /\ origin \in Origins
    /\ c = DecPair(origin)
    /\ pc = "entry"
    /\ error = ""
    /\ PathIdle
    /\ TransformIdle
    /\ AppIdle
    /\ DocumentIdle

\* the check of the strategy tag before the loop:
\* !(strategy in StrategyClosestFunctionMap)
CheckStrategy ==
    /\ pc = "entry"
    /\ IF strategy \in StrategyClosestFunctionMap \cup ObjectPrototype
       THEN pc' = "loop" /\ UNCHANGED error
       ELSE pc' = "thrown" /\ error' = "Invalid strategy"
    /\ UNCHANGED <<input, paths, sortedPaths, c, strategy, origin>>
    /\ UNCHANGED pathVars
    /\ UNCHANGED transformVars
    /\ UNCHANGED appVars
    /\ UNCHANGED documentVars

\* Mutant of Iterate: the selected path is pushed to the output and left
\* in the collection.
IterateNoSplice ==
    /\ pc = "loop"
    /\ Len(paths) > 0
    /\ Len(sortedPaths) <= Len(input)
    /\ IF strategy \in ObjectPrototype
       THEN /\ pc' = "thrown"
            /\ error' = IF strategy \in Callable
                        THEN "Error computing closest subpath"
                        ELSE "TypeError"
            /\ UNCHANGED <<paths, sortedPaths, c>>
       ELSE IF strategy = START_END /\ StartEndThrows(RemainingTrees)
       THEN /\ pc' = "thrown"
            /\ error' = "TypeError"
            /\ UNCHANGED <<paths, sortedPaths, c>>
       ELSE LET closest == Closest
            IN  IF closest.index = 0
                THEN /\ pc' = "thrown"
                     /\ error' = "Error computing closest subpath"
                     /\ UNCHANGED <<paths, sortedPaths, c>>
                ELSE /\ sortedPaths' = Append(sortedPaths,
                                              paths[closest.index])
                     /\ c' = closest.next
                     /\ UNCHANGED <<paths, pc, error>>
    /\ UNCHANGED <<input, strategy, origin>>
    /\ UNCHANGED pathVars
    /\ UNCHANGED transformVars
    /\ UNCHANGED appVars
    /\ UNCHANGED documentVars

\* one iteration of `while (paths.length)`: the member of the map the tag
\* names is called, an inherited one included
Iterate ==
    /\ pc = "loop"
    /\ Len(paths) > 0
    /\ IF strategy \in ObjectPrototype
       THEN /\ pc' = "thrown"
            /\ error' = IF strategy \in Callable
                        THEN "Error computing closest subpath"
                        ELSE "TypeError"
            /\ UNCHANGED <<paths, sortedPaths, c>>
       ELSE IF strategy = START_END /\ StartEndThrows(RemainingTrees)
       THEN /\ pc' = "thrown"
            /\ error' = "TypeError"
            /\ UNCHANGED <<paths, sortedPaths, c>>
       ELSE LET closest == Closest
            IN  IF closest.index = 0
                THEN /\ pc' = "thrown"
                     /\ error' = "Error computing closest subpath"
                     /\ UNCHANGED <<paths, sortedPaths, c>>
                ELSE /\ sortedPaths' = Append(sortedPaths,
                                              paths[closest.index])
                     /\ c' = closest.next
                     /\ paths' = Splice(paths, closest.index)
                     /\ UNCHANGED <<pc, error>>
    /\ UNCHANGED <<input, strategy, origin>>
    /\ UNCHANGED pathVars
    /\ UNCHANGED transformVars
    /\ UNCHANGED appVars
    /\ UNCHANGED documentVars

\* `return sortedPaths` once the collection is empty
Return ==
    /\ pc = "loop"
    /\ Len(paths) = 0
    /\ pc' = "returned"
    /\ UNCHANGED <<input, paths, sortedPaths, c, strategy, origin, error>>
    /\ UNCHANGED pathVars
    /\ UNCHANGED transformVars
    /\ UNCHANGED appVars
    /\ UNCHANGED documentVars

\* SvgDocument.reorderPaths, whose this.structure.paths is the collection
\* handed over: `this.structure.paths = reorderedPaths` after the return
ReorderPathsAssign ==
    /\ pc = "returned"
    /\ paths' = sortedPaths
    /\ pc' = "assigned"
    /\ UNCHANGED <<input, sortedPaths, c, strategy, origin, error>>
    /\ UNCHANGED pathVars
    /\ UNCHANGED transformVars
    /\ UNCHANGED appVars
    /\ UNCHANGED documentVars

Next ==
    \/ CheckStrategy
    \/ Iterate
    \/ Return
    \/ ReorderPathsAssign

Spec == Init /\ [][Next]_vars

----------------------------------------------------------------------------
(* The command-line front end (app.ts)                                     *)

HelpFlags == {"-h", "-?", "--help", "/h", "/?", "/help"}

\* the arguments a run is started with: help flags, the end-of-options
\* mark, the name of a standard stream, the empty string and file names
Arguments == {"--help", "/?", "--", "-", "", "in.svg", "out.svg"}

RECURSIVE ArgSeqs(_)
ArgSeqs(n) ==
    IF n <= 0 THEN {<<>>}
    ELSE ArgSeqs(n - 1) \cup
         {Append(s, a) : s \in ArgSeqs(n - 1), a \in Arguments}

\* process.argv[i] (0-based), <<>> when undefined
Argv(i) == IF i < Len(argv) THEN <<argv[i + 1]>> ELSE <<>>

\* flags.includes(process.argv[i])
Includes(flags, a) == a # <<>> /\ a[1] \in flags

\* showHelp(isError): the stream the usage line goes to and the exit code
showHelpAlwaysError(isError) ==
    [usage |-> "stderr", code |-> 1]

showHelp(isError) ==
    [usage |-> IF isError THEN "stderr" ELSE "stdout",
     code  |-> IF isError THEN 1 ELSE 0]

endOfOptions == Argv(2) = <<"--">>

inputFile == Argv(IF endOfOptions THEN 3 ELSE 2)

outputFile == Argv(IF endOfOptions THEN 4 ELSE 3)

\* !file || (file === '-' && !endOfOptions): undefined and the empty
\* string are the two values of an argument that !file takes for absent
IsStandardStream(file) ==
    \/ file = <<>>
    \/ file = <<"">>
    \/ (file = <<"-">> /\ ~endOfOptions)

\* the catch handler of the run: console.dir(e); process.exit(1)
Catch ==
    /\ step' = "exited"
    /\ exitCode' = <<1>>

\* the 'error' event of process.stdout, which nothing handles: the
\* process ends with exit code 1
Uncaught ==
    /\ step' = "exited"
    /\ exitCode' = <<1>>

InitApp ==
    /\ argv \in {<<"node", "app.js">> \o a : a \in ArgSeqs(MaxArgs)}
    /\ step = "arguments"
    /\ exitCode = <<>>
    /\ usage = "none"
    /\ inputFrom = <<>>
    /\ result = <<>>
    /\ outputTo = <<>>
    /\ PathIdle
    /\ ReorderIdle
    /\ TransformIdle
    /\ DocumentIdle

\* the two tests of the arguments; process.exit ends the run at once
CheckArguments ==
    /\ step = "arguments"
    /\ IF \/ Len(argv) < 2
          \/ Len(argv) > 5
          \/ Includes(HelpFlags, Argv(3))
       THEN /\ usage' = showHelp(TRUE).usage
            /\ exitCode' = <<showHelp(TRUE).code>>
            /\ step' = "exited"
       ELSE IF Includes(HelpFlags, Argv(2))
       THEN /\ usage' = showHelp(FALSE).usage
            /\ exitCode' = <<showHelp(FALSE).code>>
            /\ step' = "exited"
       ELSE /\ step' = "read"
            /\ UNCHANGED <<usage, exitCode>>
    /\ UNCHANGED <<argv, inputFrom, result, outputTo>>
    /\ UNCHANGED <<pathVars, reorderVars, transformVars, documentVars>>

\* the input is read from standard input or from the file named; either
\* may fail, and the rejection reaches the catch handler
ReadInput ==
    /\ step = "read"
    /\ inputFrom' = IF IsStandardStream(inputFile) THEN <<"stdin">>
                    ELSE inputFile
    /\ \E failed \in BOOLEAN :
          IF failed THEN Catch
          ELSE /\ step' = "reorder"
               /\ UNCHANGED exitCode
    /\ UNCHANGED <<argv, usage, result, outputTo>>
    /\ UNCHANGED <<pathVars, reorderVars, transformVars, documentVars>>

\* reorderSvgPaths(input, Strategy.START_END) returns the serialized
\* documents or throws; a result that is not one document is thrown on
ReorderSvgPaths ==
    /\ step = "reorder"
    /\ \E failed \in BOOLEAN, documents \in 0..MaxDocuments :
          IF failed
          THEN /\ Catch
               /\ UNCHANGED result
          ELSE /\ result' = <<documents>>
               /\ IF documents # 1 THEN Catch
                  ELSE /\ step' = "write"
                       /\ UNCHANGED exitCode
    /\ UNCHANGED <<argv, usage, inputFrom, outputTo>>
    /\ UNCHANGED <<pathVars, reorderVars, transformVars, documentVars>>

\* the document is written to standard output or to the file named; the
\* run then ends, and the process with it, with exit code 0.  Either
\* write may fail: the rejection of fs.writeFile reaches the catch
\* handler, the error of process.stdout.write (a closed pipe, a full
\* device) is emitted on the stream after the run has ended
WriteOutput ==
    /\ step = "write"
    /\ \E failed \in BOOLEAN :
          IF failed
          THEN /\ IF IsStandardStream(outputFile) THEN Uncaught ELSE Catch
               /\ UNCHANGED outputTo
          ELSE /\ outputTo' = IF IsStandardStream(outputFile)
                              THEN <<"stdout">> ELSE outputFile
               /\ step' = "exited"
               /\ exitCode' = <<0>>
    /\ UNCHANGED <<argv, usage, inputFrom, result>>
    /\ UNCHANGED <<pathVars, reorderVars, transformVars, documentVars>>

NextApp ==
    \/ CheckArguments
    \/ ReadInput
    \/ ReorderSvgPaths
    \/ WriteOutput

SpecApp == InitApp /\ [][NextApp]_vars

----------------------------------------------------------------------------
(* The use references of a document (SvgDocument.ts)                       *)
(*                                                                         *)
(* A use element becomes an UnresolvedSvgPath object, which holds the id   *)
(* it names and a transform.  The registry args.defs maps the id of an     *)
(* element to the list of the paths of that element, a list that holds     *)
(* SvgPath objects and UnresolvedSvgPath objects.  An object that a list   *)
(* of the registry holds is not rendered itself: what an element with an   *)
(* id returns to be rendered is a copy made by transform(CTM).  Once the   *)
(* whole document has been read, every UnresolvedSvgPath of the rendered   *)
(* paths is resolved against the registry and what is not an SvgPath is    *)
(* filtered out.  One call of resolve is a frame of the stack: the object, *)
(* the position of the flatMap callback in the list of its id, and what    *)
(* the callback returned so far.  SvgPath.prototype.transform and          *)
(* SvgTransform.prototype.catenate, which resolve calls, are taken from    *)
(* the specification: transform(path, T) and compose(outer, inner).        *)

\* the UnresolvedSvgPath objects of the document
Uses == 1 .. MaxUses

\* the ids that elements of the document carry
Ids == {"a", "b"}

\* what the href of a use can name: an id, registered or not, or a name
\* that no element carries but every object inherits
Hrefs == Ids \cup {"constructor"}

\* the transform of an UnresolvedSvgPath: its constructor is always given
\* one (the translation by x and y composed with the transform attribute)
UseTransforms == {identity, translate(3, -2)}

\* the SvgPath of a path element, 'M0 0L1 1'
ThePath == <<"path", <<<<"M", <<<<0, 0>>>>>>, <<"L", <<<<1, 1>>>>>>>>>>

Use(u) == <<"use", u>>

\* a new UnresolvedSvgPath object, which nothing resolves any more
Unresolved(href, T) == <<"unresolved", href, T>>

IsSvgPath(item) == item[1] = "path"

Items == {ThePath} \cup {Use(u) : u \in Uses}

\* the lists of paths of an element with an id: of a shape or of a use (one
\* item), of a group (any number, here up to two distinct children)
ItemLists ==
    {<<>>} \cup {<<i>> : i \in Items}
        \cup {pair \in Items \X Items : IsSvgPath(pair[1]) \/ pair[1] # pair[2]}

\* the places of the registry that hold object u
Holders(u) ==
    {place \in Ids \X (1 .. 2) :
        /\ defs[place[1]] # <<>>
        /\ place[2] <= Len(defs[place[1]][1])
        /\ ~IsSvgPath(defs[place[1]][1][place[2]])
        /\ defs[place[1]][1][place[2]][2] = u}

Rendered(item) == IsSvgPath(item) \/ Holders(item[2]) = {}

\* the paths that the elements of the document returned to be rendered: the
\* SvgPath of a path element and the UnresolvedSvgPath objects that no list
\* of the registry holds
RenderedPaths ==
    SelectSeq(<<ThePath>> \o [u \in Uses |-> Use(u)], Rendered)

\* defs has an own entry for the id: an element carries it
Own(id) == id \in DOMAIN defs /\ defs[id] # <<>>

\* defs[this._href] is truthy: defs is an object literal, so the lookup
\* also finds the members of Object.prototype
Registered(id) == Own(id) \/ id \in ObjectPrototype

\* compose(outer, inner), both operands present: the product outer x inner
catenate(outer, inner) == catenateTransform(outer, inner)

\* SvgPath.transform(CTM) of the path with this tree: the tree of the new
\* path
transformPath(tree, CTM) == transformTree(tree, <<CTM>>)

\* path.transform(T) for an item of a result and a transform T that is
\* present: a new SvgPath, or a new UnresolvedSvgPath with the same href
\* and the transform T.catenate(path._transform)
transformItem(item, T) ==
    CASE IsSvgPath(item) -> <<"path", transformPath(item[2], T)>>
      [] item[1] = "use" ->
            Unresolved(_href[item[2]], catenate(T, _transform[item[2]]))
      [] OTHER -> Unresolved(item[2], catenate(T, item[3]))

\* the entry of resolve on object u: a value returned at once (the
\* memoised _result, or the object itself when the lookup of its id finds
\* nothing), or the flatMap over what the lookup found
ResolveEnter(u) ==
    IF _result[u] # <<>> THEN [kind |-> "return", value |-> _result[u][1]]
    ELSE IF Registered(_href[u]) THEN [kind |-> "flatMap", value |-> <<>>]
    ELSE [kind |-> "return", value |-> <<Use(u)>>]

\* the caller of a call receives the value the call returns: the flatMap
\* callback of the calling frame, or the flatMap of documents.push
Deliver(below, value) ==
    IF below = <<>>
    THEN /\ stack' = <<>>
         /\ resolved' = resolved \o value
         /\ todo' = todo + 1
    ELSE LET caller == below[Len(below)] IN
         /\ stack' = [below EXCEPT ![Len(below)] =
                [caller EXCEPT !.acc = caller.acc \o value, !.i = caller.i + 1]]
         /\ UNCHANGED <<resolved, todo>>

\* resolve called on object u by the caller on top of below.  What the
\* lookup found is a list when the entry is an own one; an inherited
\* member has no flatMap, and the TypeError leaves every call under way
\* and SvgDocument.fromString
CallResolve(u, below) ==
    LET entry == ResolveEnter(u) IN
    IF entry.kind = "return"
    THEN /\ Deliver(below, entry.value)
         /\ UNCHANGED <<_result, failure>>
    ELSE IF Own(_href[u])
    THEN /\ _result' = [_result EXCEPT ![u] = <<<<>>>>]
         /\ stack' = Append(below, [obj |-> u, i |-> 1, acc |-> <<>>])
         /\ UNCHANGED <<resolved, todo, failure>>
    ELSE /\ _result' = [_result EXCEPT ![u] = <<<<>>>>]
         /\ failure' = <<"TypeError">>
         /\ stack' = <<>>
         /\ UNCHANGED <<resolved, todo>>

InitResolve ==
    /\ defs \in [Ids -> {<<>>} \cup {<<list>> : list \in ItemLists}]
    /\ \A u \in Uses : Cardinality(Holders(u)) <= 1
    /\ _href \in [Uses -> Hrefs]
    /\ _transform \in [Uses -> UseTransforms]
    /\ _result = [u \in Uses |-> <<>>]
    /\ stack = <<>>
    /\ todo = 1
    /\ resolved = <<>>
    /\ structure = <<>>
    /\ failure = <<>>
    /\ PathIdle
    /\ ReorderIdle
    /\ TransformIdle
    /\ AppIdle

\* the flatMap callback of documents.push on the next rendered path
ResolvePath ==
    /\ structure = <<>>
    /\ failure = <<>>
    /\ stack = <<>>
    /\ todo <= Len(RenderedPaths)
    /\ LET path == RenderedPaths[todo] IN
       IF IsSvgPath(path)
       THEN /\ resolved' = Append(resolved, path)
            /\ todo' = todo + 1
            /\ UNCHANGED <<_result, stack, failure>>
       ELSE CallResolve(path[2], <<>>)
    /\ UNCHANGED <<defs, _href, _transform, structure>>
    /\ UNCHANGED <<pathVars, reorderVars, transformVars, appVars>>

\* the flatMap callback of resolve on the next item of the list
ResolveItem ==
    /\ failure = <<>>
    /\ stack # <<>>
    /\ LET frame == stack[Len(stack)]
           list == defs[_href[frame.obj]][1]
       IN /\ frame.i <= Len(list)
          /\ IF IsSvgPath(list[frame.i])
             THEN /\ stack' = [stack EXCEPT ![Len(stack)] =
                        [frame EXCEPT !.acc = Append(frame.acc, list[frame.i]),
                                      !.i = frame.i + 1]]
                  /\ UNCHANGED <<_result, resolved, todo, failure>>
             ELSE CallResolve(list[frame.i][2], stack)
    /\ UNCHANGED <<defs, _href, _transform, structure>>
    /\ UNCHANGED <<pathVars, reorderVars, transformVars, appVars>>

\* the end of resolve: every path of the list that flatMap returned is
\* mapped by transform(this._transform), and the result is stored in
\* _result and returned
ResolveReturn ==
    /\ failure = <<>>
    /\ stack # <<>>
    /\ LET frame == stack[Len(stack)]
           list == defs[_href[frame.obj]][1]
           mapped == [k \in 1 .. Len(frame.acc) |->
                        transformItem(frame.acc[k], _transform[frame.obj])]
       IN /\ frame.i > Len(list)
          /\ _result' = [_result EXCEPT ![frame.obj] = <<mapped>>]
          /\ Deliver(SubSeq(stack, 1, Len(stack) - 1), mapped)
    /\ UNCHANGED <<defs, _href, _transform, structure, failure>>
    /\ UNCHANGED <<pathVars, reorderVars, transformVars, appVars>>

\* documents.push: the filter keeps the SvgPath objects
DocumentsPush ==
    /\ structure = <<>>
    /\ failure = <<>>
    /\ stack = <<>>
    /\ todo = Len(RenderedPaths) + 1
    /\ structure' = <<SelectSeq(resolved, IsSvgPath)>>
    /\ UNCHANGED <<defs, _href, _transform, _result, stack, todo, resolved,
                   failure>>
    /\ UNCHANGED <<pathVars, reorderVars, transformVars, appVars>>

NextResolve ==
    \/ ResolvePath
    \/ ResolveItem
    \/ ResolveReturn
    \/ DocumentsPush

SpecResolve == InitResolve /\ [][NextResolve]_vars

----------------------------------------------------------------------------
(* The shape elements of a document (SvgDocument.ts, extractPaths)         *)
(*                                                                         *)
(* An element with an id is built under its own transform attribute        *)
(* alone, registered under the id, and the path returned is the registered *)
(* one mapped by the CTM.  An element with no id is built once, under the  *)
(* transform attribute composed with the CTM.                              *)

\* the id attribute: absent, or an id
ElementIds == {<<>>} \cup {<<id>> : id \in Ids}

\* the transform attribute: absent, or a string
ElementTransforms ==
    {<<>>, <<"translate(3 -2)">>, <<"matrix(0 1 -1 0 0 0)">>}

\* args.CTM: the transforms of the svg element and of the groups around
\* the element
CTMs ==
    {fromString(<<string>>, identity) :
        string \in {"", "scale(2)", "matrix(1 -2 3 4 -5 -6)"}}

\* the branch of an element with an id, args.render being true: the path
\* with this tree is built under the transform attribute alone and
\* registered under the id, and the path returned is the registered one
\* mapped by the CTM
Register(name, id, params, string, CTM, tree) ==
    /\ ret = NoCall
    /\ defs' = [defs EXCEPT ![id[1]] =
                    <<<<transformTree(tree, <<fromString(string, identity)>>)>>>>]
    /\ ret' = Returned(name, <<transformPath(defs'[id[1]][1][1], CTM)>>)
    /\ args' = <<name, id, params, string, CTM>>
    /\ UNCHANGED <<_href, _transform, _result, stack, todo, resolved,
                   structure, failure>>
    /\ UNCHANGED <<_tree, _absoluteTree, _start, _end, _centroid, passes>>
    /\ UNCHANGED <<transform, depth>>
    /\ UNCHANGED reorderVars
    /\ UNCHANGED appVars

\* the branch of an element with no id, args.render being true: the path
\* with this tree is built under the transform attribute composed with
\* the CTM, and returned
Render(name, params, string, CTM, tree) ==
    /\ ret = NoCall
    /\ ret' = Returned(name, <<transformTree(tree, <<fromString(string, CTM)>>)>>)
    /\ args' = <<name, <<>>, params, string, CTM>>
    /\ UNCHANGED documentVars
    /\ UNCHANGED <<_tree, _absoluteTree, _start, _end, _centroid, passes>>
    /\ UNCHANGED <<transform, depth>>
    /\ UNCHANGED reorderVars
    /\ UNCHANGED appVars

InitElements ==
    /\ defs = [id \in Ids |-> <<>>]
    /\ _href = <<>>
    /\ _transform = <<>>
    /\ _result = <<>>
    /\ stack = <<>>
    /\ todo = 0
    /\ resolved = <<>>
    /\ structure = <<>>
    /\ failure = <<>>
    /\ PathIdle
    /\ ReorderIdle
    /\ TransformIdle
    /\ AppIdle

\* case 'line'
ExtractLine ==
    \E id \in ElementIds, p1 \in Corners, p2 \in Points,
       string \in ElementTransforms, CTM \in CTMs :
        LET x1 == p1[1]
            y1 == p1[2]
            x2 == p2[1]
            y2 == p2[2]
        IN IF id # <<>>
           THEN Register("line", id, <<x1, y1, x2, y2>>, string, CTM,
                         LineTreeOf(x1, y1, x2, y2))
           ELSE Render("line", <<x1, y1, x2, y2>>, string, CTM,
                       LineTreeOf(x1, y1, x2, x2))

\* case 'polygon'
ExtractPolygon ==
    \E id \in ElementIds, points \in PointLists,
       string \in ElementTransforms, CTM \in CTMs :
        IF id # <<>>
        THEN Register("polygon", id, points, string, CTM,
                      PolygonTreeOf(points))
        ELSE Render("polygon", points, string, CTM, PolygonTreeOf(points))

\* case 'polyline'
ExtractPolyline ==
    \E id \in ElementIds, points \in PointLists,
       string \in ElementTransforms, CTM \in CTMs :
        IF id # <<>>
        THEN Register("polyline", id, points, string, CTM,
                      PolylineTreeOf(points))
        ELSE Render("polyline", points, string, CTM, PolygonTreeOf(points))

NextElements ==
    \/ ExtractLine
    \/ ExtractPolygon
    \/ ExtractPolyline

SpecElements == InitElements /\ [][NextElements]_vars

----------------------------------------------------------------------------
(* Properties of the Reorder Engine (specification Spec)                   *)

Range(s) == {s[i] : i \in 1..Len(s)}

Occurrences(s, e) == Cardinality({i \in 1..Len(s) : s[i] = e})

\* the distance the strategy gives the Path object id, seen from point p
DistanceFrom(p, id) ==
    IF strategy = CENTROID
    THEN computeDistance(p, centroid(input[id]))
    ELSE computeDistance(p, DecPair(start(input[id])))

\* the point the strategy moves to after the Path object id
NextPointOf(id) ==
    IF strategy = CENTROID
    THEN centroid(input[id])
    ELSE DecPair(end(input[id]))

\* every path of the input has a finite distance under the strategy
FiniteInput ==
    \A id \in 1..Len(input) :
        /\ input[id] # <<>>
        /\ DecIsFinite(DistanceFrom(DecPair(origin), id))

\* the distances of the remaining paths from the reference point
Distances ==
    Tabulated([j \in 1..Len(paths) |-> DistanceFrom(c, paths[j])])

\* this step of the loop moved a path to the output
Picked == pc = "loop" /\ Len(sortedPaths') = Len(sortedPaths) + 1

\* C1: when every path of the input has a finite distance under the
\* chosen strategy, the call returns, and what it returns has the length
\* of the input and holds every input Path object exactly once.
C1_Permutation ==
    (/\ strategy \in StrategyClosestFunctionMap
     /\ FiniteInput
     /\ pc \in {"returned", "assigned", "thrown"})
    => /\ pc # "thrown"
       /\ Len(sortedPaths) = Len(input)
       /\ \A id \in 1..Len(input) : Occurrences(sortedPaths, id) = 1
       /\ Range(sortedPaths) \subseteq 1..Len(input)

\* the paths 'M0 0 1 0 0 0', 'M0 0 5 0 0 0' and 'M-1 0' from (0, 0) under
\* CENTROID: from the centroid of the first, the second is at
\* 1.3333333333333333334 and the third at 1.3333333333333333333
C1_Witness ==
    /\ pc = "returned"
    /\ FiniteInput
    /\ strategy = CENTROID
    /\ origin = <<0, 0>>
    /\ input = << << <<"M", <<<<0, 0>>, <<1, 0>>, <<0, 0>>>>>> >>,
                  << <<"M", <<<<0, 0>>, <<5, 0>>, <<0, 0>>>>>> >>,
                  << <<"M", <<<<-1, 0>>>>>> >> >>
    /\ DecToString(computeDistance(centroid(input[1]), centroid(input[2])))
          = "1.3333333333333333334"
    /\ DecToString(computeDistance(centroid(input[1]), centroid(input[3])))
          = "1.3333333333333333333"
    /\ sortedPaths = <<1, 3, 2>>

\* C2 (steps): the path a step selects is at a distance from c that no
\* remaining path undercuts, and no path before it in the remaining
\* collection is at that same distance.
C2_PickIsFirstClosest ==
    Picked =>
        LET distance == Distances
        IN  \E k \in 1..Len(paths) :
                /\ sortedPaths'[Len(sortedPaths')] = paths[k]
                /\ DecIsFinite(distance[k])
                /\ \A j \in 1..Len(paths) :
                      ~DecLt(distance[j], distance[k])
                /\ \A j \in 1..(k - 1) : distance[j] # distance[k]

\* C2 (example): [p2, p3, p1] with origin (0, 45) under CENTROID, where
\* p3 and p1 are equidistant, comes out as [p3, p1, p2].
C2_Example ==
    (/\ input = <<Square(90, 0), Square(0, 90), Square(45, 45)>>
     /\ strategy = CENTROID
     /\ origin = <<0, 45>>
     /\ pc = "returned")
    => sortedPaths = <<2, 3, 1>>

\* C2: every step selects the first of the remaining paths at minimal
\* distance from the reference point, and the example of the tie comes
\* out as [p3, p1, p2].
C2_FirstClosest == []C2_Example /\ [][C2_PickIsFirstClosest]_vars

C2_Witness ==
    /\ input = <<Square(90, 0), Square(0, 90), Square(45, 45)>>
    /\ strategy = CENTROID
    /\ origin = <<0, 45>>
    /\ DistanceFrom(DecPair(origin), 2) = DistanceFrom(DecPair(origin), 3)
    /\ pc = "returned"
    /\ sortedPaths = <<2, 3, 1>>

\* C3 (state): the reference point is the origin until a path is picked,
\* and then the next point of the last picked path: its end under
\* START_END, its centroid under CENTROID.
C3_ReferencePoint ==
    pc \in {"entry", "loop", "returned", "assigned"} =>
        IF sortedPaths = <<>>
        THEN c = DecPair(origin)
        ELSE c = NextPointOf(sortedPaths[Len(sortedPaths)])

\* C3 (steps): a step ranks by the distance from c to the start of a path
\* under START_END and to its centroid under CENTROID.
C3_RankedBy ==
    Picked =>
        LET id == sortedPaths'[Len(sortedPaths')]
            key(i) == IF strategy = START_END
                      THEN DecPair(start(input[i]))
                      ELSE centroid(input[i])
            ranked == Tabulated([j \in 1..Len(paths) |->
                                    computeDistance(c, key(paths[j]))])
        IN  /\ \E k \in 1..Len(paths) :
                  /\ paths[k] = id
                  /\ \A j \in 1..Len(paths) : ~DecLt(ranked[j], ranked[k])
            /\ c' = NextPointOf(id)

\* C3: c starts at the origin and after each pick is the picked path's
\* next point (end under START_END, never the centroid; the centroid
\* under CENTROID), candidates being ranked by the distance from c to
\* their start, respectively their centroid.
C3_NextPoint == []C3_ReferencePoint /\ [][C3_RankedBy]_vars

C3_Witness ==
    /\ pc = "loop"
    /\ strategy = START_END
    /\ sortedPaths # <<>>
    /\ input[sortedPaths[Len(sortedPaths)]] =
          << <<"M", <<<<40, 40>>>>>>, <<"L", <<<<0, 80>>>>>> >>
    /\ c = DecPair(<<0, 80>>)
    /\ c # centroid(input[sortedPaths[Len(sortedPaths)]])
    /\ c # DecPair(origin)

\* the Path object id has a NaN distance to the reference point
HasNaNDistance(id) == DecIsNaN(DistanceFrom(c, id))

\* C4 (state): no path of the output has a NaN distance.
C4_NeverSelected ==
    strategy = CENTROID =>
        \A k \in 1..Len(sortedPaths) : ~HasNaNDistance(sortedPaths[k])

\* C4 (steps): a step never selects a path at a NaN distance, and when
\* only such paths remain the step throws 'Error computing closest
\* subpath' and selects nothing.
C4_FailsOnNaNOnly ==
    (pc = "loop" /\ strategy = CENTROID /\ Len(paths) > 0) =>
        LET distance == Distances
        IN  /\ (\A i \in 1..Len(paths) : DecIsNaN(distance[i]))
                  => /\ pc' = "thrown"
                     /\ error' = "Error computing closest subpath"
                     /\ sortedPaths' = sortedPaths
            /\ (\E i \in 1..Len(paths) : ~DecIsNaN(distance[i]))
                  => /\ pc' = "loop"
                     /\ \E k \in 1..Len(paths) :
                           /\ paths[k] = sortedPaths'[Len(sortedPaths')]
                           /\ ~DecIsNaN(distance[k])

\* C4: a path at a NaN distance is never selected while a path at a
\* finite distance remains, and once only such paths remain the call
\* fails with the error of the loop instead of returning them.
C4_NaNLast == []C4_NeverSelected /\ [][C4_FailsOnNaNOnly]_vars

C4_Witness ==
    /\ pc = "thrown"
    /\ error = "Error computing closest subpath"
    /\ strategy = CENTROID
    /\ Len(sortedPaths) = 2
    /\ Len(paths) = 1
    /\ input[paths[1]] = <<>>
    /\ input[1] = <<>>

\* C5: after a failed call the caller's collection still holds every
\* original path.
C5_NoPartialCommit ==
    pc = "thrown" => \A id \in 1..Len(input) : id \in Range(paths)

\* C6: with a strategy tag outside the enum the call throws, for every
\* input collection, the empty one included: it does not return, and no
\* path leaves the collection.
C6_InvalidStrategy ==
    (strategy \notin {CENTROID, START_END}) =>
        /\ pc \notin {"returned", "assigned"}
        /\ paths = [i \in 1..Len(input) |-> i]
        /\ sortedPaths = <<>>

\* what does hold: a tag that is no property name of the map is thrown
\* out by the guard, with 'Invalid strategy'; a name the map inherits
\* passes the guard, and the call throws in the first iteration when
\* the collection has a path, with the collection untouched
C6_UnknownName ==
    /\ (strategy \notin StrategyClosestFunctionMap \cup ObjectPrototype
            /\ pc # "entry")
        => pc = "thrown" /\ error = "Invalid strategy"
    /\ (strategy \in ObjectPrototype /\ pc \notin {"entry", "loop"})
        => /\ paths = [i \in 1..Len(input) |-> i]
           /\ sortedPaths = <<>>
           /\ IF Len(input) = 0 THEN pc \in {"returned", "assigned"}
              ELSE pc = "thrown" /\ error # "Invalid strategy"

\* sortPathsByRelativePosition([], 'constructor') has returned
C6_ReturnedOnInherited ==
    /\ strategy = "constructor"
    /\ pc = "returned"
    /\ Len(input) = 0
    /\ sortedPaths = <<>>

----------------------------------------------------------------------------
(* Properties of the Path Engine (specification SpecPath)                  *)

\* The running point of an absolute tree, read off the tree itself: the
\* point reached by one argument group from the point prev, ...
ReachedBy(letter, arg, prev) ==
    CASE letter \in {"M", "L", "T"} -> <<arg[1], arg[2]>>
      [] letter = "H" -> <<arg, prev[2]>>
      [] letter = "V" -> <<prev[1], arg>>
      [] letter = "C" -> <<arg[3][1], arg[3][2]>>
      [] letter \in {"S", "Q"} -> <<arg[2][1], arg[2][2]>>
      [] letter = "A" -> <<arg[6][1], arg[6][2]>>

\* ... the first point of the nearest MoveTo among the commands 1..i, ...
RECURSIVE SubpathStartAt(_, _)
SubpathStartAt(out, i) ==
    IF i = 0 THEN <<0, 0>>
    ELSE IF out[i][1] = "M" THEN <<out[i][2][1][1], out[i][2][1][2]>>
    ELSE SubpathStartAt(out, i - 1)

\* ... the point after the command i (after no command: the origin) and
\* the point after j argument groups of the command i.
RECURSIVE PointAfter(_, _)
RECURSIVE PointWithin(_, _, _)
PointAfter(out, i) ==
    IF i = 0 THEN <<0, 0>>
    ELSE IF out[i][1] = "Z" THEN SubpathStartAt(out, i)
    ELSE PointWithin(out, i, Len(out[i][2]))

PointWithin(out, i, j) ==
    IF j = 0 THEN PointAfter(out, i - 1)
    ELSE ReachedBy(out[i][1], out[i][2][j], PointWithin(out, i, j - 1))

Plus(a, p) == <<a[1] + p[1], a[2] + p[2]>>

\* the absolute argument group o is the relative group a moved by p
OffsetBy(letter, a, o, p) ==
    CASE letter \in {"M", "L", "T"} -> o = Plus(a, p)
      [] letter = "H" -> o = a + p[1]
      [] letter = "V" -> o = a + p[2]
      [] letter = "C" -> o = <<Plus(a[1], p), Plus(a[2], p), Plus(a[3], p)>>
      [] letter \in {"S", "Q"} -> o = <<Plus(a[1], p), Plus(a[2], p)>>
      [] letter = "A" -> o = <<a[1], a[2], a[3], a[4], a[5], Plus(a[6], p)>>

\* C7: toAbsoluteCommands returns as many commands, in the same order and
\* all absolute; an absolute command is copied unchanged; each argument
\* group of a relative command is the input group moved by the running
\* point, which advances after every group, is the first point of the
\* last MoveTo after a ClosePath and the origin before the first command.
C7_ToAbsolute ==
    (ret.op = "toAbsoluteCommands") =>
        LET out == ret.value IN
        /\ Len(out) = Len(_tree)
        /\ \A i \in 1..Len(_tree) :
              LET draw == _tree[i]
                  letter == toUpperCase[draw[1]]
              IN  /\ out[i][1] = letter
                  /\ letter \in Letters
                  /\ (letter = "Z") => out[i] = <<"Z">>
                  /\ (letter # "Z" /\ ~IsRelative(draw[1]))
                        => out[i] = <<letter, draw[2]>>
                  /\ (letter # "Z" /\ IsRelative(draw[1]))
                        => /\ Len(out[i]) = 2
                           /\ Len(out[i][2]) = Len(draw[2])
                           /\ \A j \in 1..Len(draw[2]) :
                                 OffsetBy(letter, draw[2][j], out[i][2][j],
                                          PointWithin(out, i, j - 1))

C7_Witness ==
    /\ ret.op = "toAbsoluteCommands"
    /\ _tree = << <<"m", <<<<13, 17>>, <<5, -4>>>>>>, <<"z">>,
                  <<"c", << <<<<2, 3>>, <<5, 7>>, <<29, 31>>>>,
                            <<<<1, 1>>, <<2, -2>>, <<3, -5>>>> >>>> >>
    /\ ret.value = << <<"M", <<<<13, 17>>, <<18, 13>>>>>>, <<"Z">>,
                      <<"C", << <<<<15, 20>>, <<18, 24>>, <<42, 48>>>>,
                                <<<<43, 49>>, <<44, 46>>, <<45, 43>>>> >>>> >>

\* C8: the end of a path whose absolute form ends with a command other
\* than ClosePath is the point that command reaches: for a
\* HorizontalLineTo the last x with the current y, for a VerticalLineTo
\* the current x with the last y.
C8_EndHV ==
    (/\ ret.op = "end"
     /\ ~ret.thrown
     /\ _absoluteTree[1][Len(_absoluteTree[1])][1] # "Z")
    => ret.value = PointAfter(_absoluteTree[1], Len(_absoluteTree[1]))

\* the vertices the absolute command i visits
VerticesOf(out, i) ==
    LET letter == out[i][1]
        prev == PointAfter(out, i - 1)
    IN  IF letter = "Z" THEN <<>>
        ELSE [j \in 1..Len(out[i][2]) |->
                 CASE letter \in {"M", "L", "T"} -> out[i][2][j]
                   [] letter = "H" -> <<out[i][2][j], prev[2]>>
                   [] letter = "V" -> <<prev[1], out[i][2][j]>>
                   [] letter = "C" -> out[i][2][j][3]
                   [] letter \in {"S", "Q"} -> out[i][2][j][2]
                   [] letter = "A" -> out[i][2][j][6]]

\* the vertices the commands 1..i visit
RECURSIVE VerticesUpTo(_, _)
VerticesUpTo(out, i) ==
    IF i = 0 THEN <<>> ELSE VerticesUpTo(out, i - 1) \o VerticesOf(out, i)

\* the sum of the coordinate k of the points vs[1..n]
RECURSIVE CoordSum(_, _, _)
CoordSum(vs, k, n) ==
    IF n = 0 THEN 0 ELSE CoordSum(vs, k, n - 1) + vs[n][k]

\* C9: the centroid is the arithmetic mean of the vertices the absolute
\* form visits, the quotient rounded to precision digits: every pair of
\* M, L and T, every scalar of H and V paired with the running value of
\* the other axis, the end point of every repetition of C, S, Q and A,
\* and nothing for a ClosePath.
C9_Centroid ==
    (ret.op = "centroid") =>
        LET vs == VerticesUpTo(_absoluteTree[1], Len(_absoluteTree[1]))
        IN  ret.value = <<DecDiv(CoordSum(vs, 1, Len(vs)), Len(vs)),
                          DecDiv(CoordSum(vs, 2, Len(vs)), Len(vs))>>

\* 'M2 3s7 1 3 9 -2 6 4 4' visits (2, 3), (5, 12) and (9, 16)
C9_Witness ==
    /\ ret.op = "centroid"
    /\ _tree = << <<"M", <<<<2, 3>>>>>>,
                  <<"s", << <<<<7, 1>>, <<3, 9>>>>,
                            <<<<-2, 6>>, <<4, 4>>>> >>>> >>
    /\ ret.value = <<DecDiv(16, 3), DecDiv(31, 3)>>
    /\ DecToString(ret.value[1]) = "5.3333333333333333333"
    /\ DecToString(ret.value[2]) = "10.333333333333333333"

\* C10: on the empty path start, end and centroid return (0, 0) and do
\* not throw.
C10_EmptyPath ==
    (_tree = <<>> /\ ret.op \in {"start", "end", "centroid"})
    => /\ ~ret.thrown
       /\ (ret.op = "centroid") => ret.value = <<Dec(0), Dec(0)>>
       /\ (ret.op # "centroid") => ret.value = <<0, 0>>

----------------------------------------------------------------------------
(* Properties of extractSubpaths (specification SpecSubpaths)              *)

\* the positions of the MoveTo commands of a tree, in order
MoveToIndices(tree) ==
    SelectSeq([i \in 1..Len(tree) |-> i],
              LAMBDA i : toUpperCase[tree[i][1]] = "M")

\* the commands between the k-th MoveTo of a tree and the next one
Segment(tree, k) ==
    LET idx == MoveToIndices(tree)
        upto == IF k < Len(idx) THEN idx[k + 1] - 1 ELSE Len(tree)
    IN  SubSeq(tree, idx[k] + 1, upto)

\* the k-th MoveTo is a relative one met after the first command
LaterRelative(tree, k) ==
    LET i == MoveToIndices(tree)[k]
    IN  i > 1 /\ IsRelative(tree[i][1])

\* the number of commands that open the k-th subpath: its MoveTo, and
\* the 'l' that carries the further pairs of a rewritten relative MoveTo
Opening(tree, k) ==
    IF LaterRelative(tree, k) /\ Len(tree[MoveToIndices(tree)[k]][2]) > 1
    THEN 2 ELSE 1

\* C11: on a tree with k MoveTo commands extractSubpaths returns k paths,
\* in the order of the MoveTo commands, each beginning with a MoveTo; the
\* commands that follow the opening of the i-th path are exactly the
\* non-MoveTo commands between the i-th MoveTo and the next one, so each
\* of them is in exactly one path; the empty tree gives the empty list.
C11_Subpaths ==
    (ret.op = "extractSubpaths" /\ ~ret.thrown) =>
        LET idx == MoveToIndices(_tree)
            subpaths == ret.value
        IN  /\ Len(subpaths) = Len(idx)
            /\ \A k \in 1..Len(subpaths) :
                 /\ toUpperCase[subpaths[k][1][1]] = "M"
                 /\ ~LaterRelative(_tree, k)
                       => subpaths[k][1] = _tree[idx[k]]
                 /\ SubSeq(subpaths[k], Opening(_tree, k) + 1,
                           Len(subpaths[k])) = Segment(_tree, k)
            /\ (_tree = <<>>) => (subpaths = <<>>)

\* two subpaths at least, the first with a drawing command, and a
\* relative MoveTo among the later ones
C11_Witness ==
    /\ ret.op = "extractSubpaths"
    /\ ~ret.thrown
    /\ Len(ret.value) >= 2
    /\ Len(ret.value[1]) >= 2
    /\ \E k \in 1..Len(ret.value) : LaterRelative(_tree, k)

\* the tree with every command letter in upper case
UpperTree(tree) ==
    [i \in 1..Len(tree) |->
        IF Len(tree[i]) = 1 THEN <<toUpperCase[tree[i][1]]>>
        ELSE <<toUpperCase[tree[i][1]], tree[i][2]>>]

\* C12 as stated: the texts of the returned paths, concatenated in order,
\* are the text of the path once the command letters of both are put in
\* one case, whatever MoveTo commands the tree has.
C12_Reconcatenation ==
    (ret.op = "extractSubpaths" /\ ~ret.thrown) =>
        toString(UpperTree(Flat(ret.value))) = toString(UpperTree(_tree))

\* C12: when every MoveTo after the first command is absolute, the texts
\* of the returned paths, concatenated in order, are the text of the
\* path, letter case included; a relative MoveTo after the first command
\* is written as 'M' with one pair, followed by an 'l' command with its
\* further pairs when it has some.
C12_AbsoluteMoveTos ==
    (ret.op = "extractSubpaths" /\ ~ret.thrown) =>
        LET idx == MoveToIndices(_tree)
        IN  /\ (\A k \in 1..Len(idx) : ~LaterRelative(_tree, k))
                  => toString(Flat(ret.value)) = toString(_tree)
            /\ \A k \in 1..Len(idx) :
                 LaterRelative(_tree, k) =>
                    /\ ret.value[k][1][1] = "M"
                    /\ Len(ret.value[k][1][2]) = 1
                    /\ (Len(_tree[idx[k]][2]) > 1) =>
                          ret.value[k][2] = <<"l", Tail(_tree[idx[k]][2])>>

\* a path that starts with 'm', draws with a lower-case command and opens
\* a second subpath with an absolute MoveTo
C12_Witness ==
    /\ ret.op = "extractSubpaths"
    /\ ~ret.thrown
    /\ Len(_tree) >= 3
    /\ _tree[1][1] = "m"
    /\ _tree[2][1] \in {"l", "h", "c", "a", "z"}
    /\ _tree[3][1] = "M"
    /\ Len(ret.value) = 2

\* C23: on a tree whose first MoveTo has one pair, the MoveTo written for
\* a relative MoveTo met later stands at the point toAbsoluteCommands
\* computes for it, the further pairs of an earlier relative MoveTo
\* having moved x and y each by its own component.
C23_IndependentAxes ==
    (ret.op = "extractSubpaths" /\ ~ret.thrown
        /\ Len(_tree) > 0 /\ Len(_tree[1][2]) = 1) =>
        LET idx == MoveToIndices(_tree)
            abs == toAbsoluteCommands(_tree)
        IN  \A k \in 1..Len(idx) :
               LaterRelative(_tree, k) =>
                  ret.value[k][1] = <<"M", <<abs[idx[k]][2][1]>>>>

\* C24: when the second command is a relative MoveTo, the MoveTo written
\* for it stands at the point toAbsoluteCommands computes for it, that
\* is, it is anchored at the last point of the first MoveTo.
C24_FirstMoveToPoint ==
    (ret.op = "extractSubpaths" /\ ~ret.thrown
        /\ Len(_tree) > 1 /\ _tree[2][1] = "m") =>
        ret.value[2][1] =
            <<"M", <<toAbsoluteCommands(_tree)[2][2][1]>>>>

\* C13: extractSubpaths throws 'Invalid start command', and returns
\* nothing, exactly when the tree is not empty and its first command is
\* not a MoveTo, absolute or relative.
C13_InvalidStart ==
    (ret.op = "extractSubpaths") =>
        /\ ret.thrown <=>
              (Len(_tree) > 0 /\ toUpperCase[_tree[1][1]] # "M")
        /\ ret.thrown => ret.value = <<"Invalid start command">>

\* the call has thrown on a tree that starts with a LineTo and has a
\* MoveTo further on
C13_Witness ==
    /\ ret.op = "extractSubpaths"
    /\ ret.thrown
    /\ Len(_tree) >= 2
    /\ _tree[1][1] = "l"
    /\ toUpperCase[_tree[2][1]] = "M"

----------------------------------------------------------------------------
(* Properties of transforms (specification SpecTransform)                  *)

\* the state after new SvgPath(tree, transform) with a transform given
Transformed == ret.op = "SvgPath" /\ args[2] # <<>>

\* the coordinate pairs of a command, in the order of its arguments; the
\* coordinate c of an H stands for (c, 0), that of a V for (0, c)
CoordPairs(draw) ==
    LET letter == toUpperCase[draw[1]]
    IN  CASE letter \in {"M", "L", "T"} -> draw[2]
          [] letter \in {"C", "S", "Q"} -> Flat(draw[2])
          [] letter = "A" -> [j \in 1..Len(draw[2]) |-> draw[2][j][6]]
          [] letter = "H" -> [j \in 1..Len(draw[2]) |-> <<draw[2][j], 0>>]
          [] letter = "V" -> [j \in 1..Len(draw[2]) |-> <<0, draw[2][j]>>]
          [] letter = "Z" -> <<>>

\* the j-th coordinate of the transformed command is the image of the
\* j-th coordinate of the command under apply or applyRelative
MappedCommand(T, draw, image) ==
    LET letter == toUpperCase[draw[1]]
        from == CoordPairs(draw)
        to == CoordPairs(image)
        expected(j) ==
            IF IsRelative(draw[1]) /\ ~(letter = "M" /\ j = 1)
            THEN applyRelative(T, from[j])
            ELSE apply(T, from[j])
    IN  /\ image[1] = draw[1]
        /\ Len(to) = Len(from)
        /\ \A j \in 1..Len(from) :
              CASE letter = "H" -> image[2][j] = expected(j)[1]
                [] letter = "V" -> image[2][j] = expected(j)[2]
                [] OTHER -> to[j] = expected(j)

\* C14: in the tree of new SvgPath(tree, T) every coordinate of an
\* absolute command is the image under T.apply and every coordinate of a
\* relative command the image under T.applyRelative of the coordinate at
\* the same place of the tree (of HVtoL(tree) when T has rotation), but
\* the first pair of a MoveTo, which is the image under T.apply also when
\* the MoveTo is relative.
C14_Mapping ==
    Transformed =>
        LET T == args[2][1]
            tree == IF hasRotation(T) THEN HVtoL(args[1]) ELSE args[1]
        IN  /\ Len(ret.value) = Len(tree)
            /\ \A i \in 1..Len(tree) :
                  MappedCommand(T, tree[i], ret.value[i])

\* RelativeStartTree under translate(3 -2): the first pair of its MoveTo
\* is moved, the second is not
C14_Witness ==
    /\ Transformed
    /\ args[2] = <<translate(3, -2)>>
    /\ args[1] = RelativeStartTree
    /\ ret.value[1] = <<"m", <<<<16, 15>>, <<5, -4>>>>>>

\* C15: when T has rotation or skew the tree of new SvgPath(tree, T) has
\* no H and no V: in the place of an H or V it has an L, of an h or v an
\* l, whose pairs are the images of (x, running y) for H x, (running x, y)
\* for V y, (dx, 0) for h dx and (0, dy) for v dy, the running point being
\* the one toAbsoluteCommands reaches before the command, ClosePath
\* included.
C15_NoHV ==
    (Transformed /\ hasRotation(args[2][1])) =>
        LET T == args[2][1]
            tree == args[1]
            out == ret.value
            absTree == toAbsoluteCommands(tree)
        IN  /\ Len(out) = Len(tree)
            /\ \A i \in 1..Len(tree) :
                 LET letter == toUpperCase[tree[i][1]]
                     isRelative == IsRelative(tree[i][1])
                     running == PointAfter(absTree, i - 1)
                     line(j) ==
                        CASE letter = "H" /\ isRelative ->
                                <<tree[i][2][j], 0>>
                          [] letter = "H" /\ ~isRelative ->
                                <<tree[i][2][j], running[2]>>
                          [] letter = "V" /\ isRelative ->
                                <<0, tree[i][2][j]>>
                          [] letter = "V" /\ ~isRelative ->
                                <<running[1], tree[i][2][j]>>
                 IN  /\ toUpperCase[out[i][1]] \notin {"H", "V"}
                     /\ letter \in {"H", "V"} =>
                          /\ out[i][1] = IF isRelative THEN "l" ELSE "L"
                          /\ Len(out[i][2]) = Len(tree[i][2])
                          /\ \A j \in 1..Len(tree[i][2]) :
                                out[i][2][j] =
                                    IF isRelative
                                    THEN applyRelative(T, line(j))
                                    ELSE apply(T, line(j))

\* StairsTree under a quarter turn: H 6 is met at
\* (2, 7), after the ClosePath has brought the running point back
C15_Witness ==
    /\ Transformed
    /\ args[2] = <<matrix(0, 1, -1, 0, 0, 0)>>
    /\ args[1] = StairsTree
    /\ ret.value[6] = <<"L", <<<<-7, 6>>>>>>

\* C16: in the tree of new SvgPath(tree, T) every arc argument keeps its
\* large-arc flag; its sweep flag is the opposite of the one given when
\* a * d - b * c < 0 and the one given otherwise.
C16_SweepFlag ==
    Transformed =>
        LET T == args[2][1]
            tree == args[1]
            out == ret.value
        IN  \A i \in 1..Len(tree) :
               toUpperCase[tree[i][1]] = "A" =>
                  \A j \in 1..Len(tree[i][2]) :
                     /\ out[i][2][j][4] = tree[i][2][j][4]
                     /\ out[i][2][j][5] =
                           IF Value(T[1]) * Value(T[4])
                                 - Value(T[2]) * Value(T[3]) < 0
                           THEN ~tree[i][2][j][5]
                           ELSE tree[i][2][j][5]

\* ArcsTree under scale(-1 1): both sweep flags have changed, the large-arc
\* flags have not
C16_Witness ==
    /\ Transformed
    /\ args[2] = <<scale(-1, 1)>>
    /\ args[1] = ArcsTree
    /\ ret.value[2][2][1][4] = FALSE
    /\ ret.value[2][2][1][5] = FALSE
    /\ ret.value[2][2][2][4] = TRUE
    /\ ret.value[2][2][2][5] = TRUE

\* the images of a point under the matrices of a list, the last first
RECURSIVE ApplyAll(_, _)
ApplyAll(matrices, p) ==
    IF matrices = <<>> THEN p
    ELSE apply(Head(matrices), ApplyAll(Tail(matrices), p))

RECURSIVE ApplyRelativeAll(_, _)
ApplyRelativeAll(matrices, p) ==
    IF matrices = <<>> THEN p
    ELSE applyRelative(Head(matrices), ApplyRelativeAll(Tail(matrices), p))

\* C17: composition is function composition, for apply and for
\* applyRelative: the transform fromString returns, composed of the CTM
\* and of the matrices of the string, maps a point as the CTM maps its
\* image under these matrices, the last one applied first; composing the
\* CTM with the composition of two matrices B, C gives the same images as
\* composing with B, then with C.
C17_Composition ==
    (ret.op = "fromString") =>
        LET A == IF args[2] = <<>> THEN identity ELSE args[2][1]
            matrices == parseTransform(args[1])
        IN  \A p \in Points :
               /\ apply(ret.value[1], p) = apply(A, ApplyAll(matrices, p))
               /\ applyRelative(ret.value[1], p) =
                     applyRelative(A, ApplyRelativeAll(matrices, p))
               /\ Len(matrices) = 2 =>
                     apply(catenateTransform(
                               A, catenateTransform(matrices[1],
                                                    matrices[2])), p)
                        = apply(ret.value[1], p)

\* scale(2) composed with translate(3 -2), which do not commute
C17_Witness ==
    /\ ret.op = "fromString"
    /\ depth = 2
    /\ args = << <<"translate(3 -2)">>, <<scale(2, 2)>> >>
    /\ transform = <<2, 0, 0, 2, 6, -4>>

\* C18: fromString does not throw on an absent, empty or unparseable
\* string; it returns the CTM when one is given and undefined when none
\* is.
C18_NoTransform ==
    (/\ ret.op = "fromString"
     /\ \/ args[1] = <<>>
        \/ args[1] = <<"">>
        \/ args[1][1] \in Unparseable) =>
        /\ ~ret.thrown
        /\ (args[2] # <<>>) => (ret.value = args[2])
        /\ (args[2] = <<>>) => (ret.value = <<>>)

\* an ellipse with a radius that is not positive, or a matrix whose
\* linear part has determinant 0
Degenerate(T, ellipse) ==
    \/ DecLte(ToDecimal(ellipse.rx), zero)
    \/ DecLte(ToDecimal(ellipse.ry), zero)
    \/ Value(T[1]) * Value(T[4]) - Value(T[2]) * Value(T[3]) = 0

\* C19: applyEllipse returns (0, 0, 0) on every degenerate input.
C19_Degenerate ==
    (ret.op = "applyEllipse" /\ Degenerate(transform, args[1])) =>
        ret.value = [rx |-> 0, ry |-> 0, phi |-> zero]

\* C20 as stated: the text of new SvgPath(tree, SvgTransform.IDENTITY) is
\* the text of new SvgPath(tree), whatever arcs the tree has.
C20_Identity ==
    (Transformed /\ args[2] = <<identity>>) =>
        toString(ret.value) = toString(args[1])

\* what does hold under SvgTransform.IDENTITY: every command but the arcs
\* is the command of the tree, and an arc argument keeps its flags and its
\* end point
C20_IdentityOutsideEllipses ==
    (Transformed /\ args[2] = <<identity>>) =>
        LET tree == args[1]
            out == ret.value
        IN  /\ Len(out) = Len(tree)
            /\ \A i \in 1..Len(tree) :
                 IF toUpperCase[tree[i][1]] = "A"
                 THEN /\ out[i][1] = tree[i][1]
                      /\ Len(out[i][2]) = Len(tree[i][2])
                      /\ \A j \in 1..Len(tree[i][2]) :
                            /\ out[i][2][j][4] = tree[i][2][j][4]
                            /\ out[i][2][j][5] = tree[i][2][j][5]
                            /\ out[i][2][j][6] = tree[i][2][j][6]
                 ELSE out[i] = tree[i]

\* the arc of LongArcTree under the identity keeps its radii and is turned
\* by a quarter
C20_TurnedByIdentity ==
    /\ Transformed
    /\ args[2] = <<identity>>
    /\ args[1] = LongArcTree
    /\ ret.value[2] = <<"A", << <<LongRadius, ShortRadius, QuarterTurn,
                                  FALSE, TRUE, <<3, 4>>>> >>>>
    /\ toString(args[1]) = "M0 0A1.23456 1.1 0 0 1 3 4"
    /\ toString(ret.value)
          = "M0 0A1.23456 1.1 89.999999999999999999 0 1 3 4"

\* the second arc of ArcsTree under the identity: the radii are exchanged
\* and the angle is a quarter turn
C20_ExchangedByIdentity ==
    /\ Transformed
    /\ args[2] = <<identity>>
    /\ args[1] = ArcsTree
    /\ ret.value[2] = <<"A", << <<3, 2, zero, FALSE, TRUE, <<17, 31>>>>,
                                <<5, 2, QuarterTurn, TRUE, FALSE,
                                  <<-6, 10>>>> >>>>


\* the output list followed by what remains of the collection holds every
\* Path object of the input exactly once
LoopPermutation ==
    /\ Len(sortedPaths) + Len(paths) = Len(input)
    /\ \A id \in 1..Len(input) :
          Occurrences(sortedPaths \o paths, id) = 1

\* an iteration that selects a path moves that one path from the
\* collection to the end of the output, the others keeping their order
OneMoved ==
    (pc = "loop" /\ pc' = "loop" /\ paths' # paths) =>
        \E k \in 1..Len(paths) :
            /\ sortedPaths' = Append(sortedPaths, paths[k])
            /\ paths' = SubSeq(paths, 1, k - 1)
                           \o SubSeq(paths, k + 1, Len(paths))

\* C28: at every point of the loop, and when it throws, the output list
\* followed by the remaining collection is a permutation of the input;
\* every iteration that does not throw moves exactly one path from the
\* collection to the output; the call returns after as many iterations
\* as the input has paths, the caller's collection then being empty.
C28_LoopMovesOne ==
    /\ [](pc \in {"entry", "loop", "thrown", "returned"} => LoopPermutation)
    /\ [](pc = "returned" =>
            paths = <<>> /\ Len(sortedPaths) = Len(input))
    /\ [][OneMoved]_vars
    /\ [][pc = "loop" /\ pc' = "loop" => paths' # paths]_vars

\* the call returned after three iterations
C28_Witness ==
    /\ pc = "returned"
    /\ Len(input) = 3
    /\ Len(sortedPaths) = 3
    /\ paths = <<>>
    /\ sortedPaths # <<1, 2, 3>>

----------------------------------------------------------------------------
(* Properties of the front end (specification SpecApp)                     *)

\* the run ended after the document was reordered and written
Written == step = "exited" /\ outputTo # <<>>

\* C21 as stated: the exit code is 0 only when a document was reordered
\* and written, and 1 on every thrown error and on every help flag in
\* whichever argument position.
C21_ExitCodes ==
    step = "exited" =>
        /\ exitCode \in {<<0>>, <<1>>}
        /\ exitCode = <<0>> => Written
        /\ (\E i \in 3..Len(argv) : argv[i] \in HelpFlags) => exitCode = <<1>>

\* C21, amended: the exit code is 0 when a document was reordered and
\* written, and also when the first argument is a help flag while there
\* are at most three arguments and the second is no help flag (the usage
\* line then goes to standard output); it is 1 with more than three
\* arguments, with a help flag as the second argument and on every thrown
\* error. A help flag in the third position is no request for help.
C21_ExitCodesHelpFirst ==
    step = "exited" =>
        LET tooMany    == Len(argv) > 5
            helpSecond == Len(argv) >= 4 /\ argv[4] \in HelpFlags
            helpFirst  == Len(argv) >= 3 /\ argv[3] \in HelpFlags
        IN  /\ exitCode \in {<<0>>, <<1>>}
            /\ (tooMany \/ helpSecond) =>
                   exitCode = <<1>> /\ usage = "stderr" /\ ~Written
            /\ (~tooMany /\ ~helpSecond /\ helpFirst) =>
                   exitCode = <<0>> /\ usage = "stdout" /\ ~Written
            /\ (~tooMany /\ ~helpSecond /\ ~helpFirst) =>
                   /\ usage = "none"
                   /\ exitCode = <<0>> <=> Written
                   /\ Written => result = <<1>>

\* a run that asked for help with its first argument has ended
C21_Witness ==
    /\ step = "exited"
    /\ argv = <<"node", "app.js", "--help", "out.svg">>
    /\ exitCode = <<0>>
    /\ usage = "stdout"

----------------------------------------------------------------------------
(* Properties of the memoised fields (specification SpecPath)              *)

\* C22: whatever calls of toAbsoluteCommands, start, end and centroid were
\* made before, and in whatever order, each call returns the value that
\* depends on the tree alone (or throws, on the same trees); end and
\* centroid fill the absolute tree when it is missing, and the loop of
\* toAbsoluteCommands runs at most once on one SvgPath object.
C22_Memoised ==
    /\ passes <= 1
    /\ passes = 1 <=> _absoluteTree # <<>>
    /\ _absoluteTree # <<>> => _absoluteTree[1] = toAbsoluteCommands(_tree)
    /\ _start # <<>> => _start[1] = start(_tree)
    /\ _end # <<>> => _end[1] = end(_tree)
    /\ _centroid # <<>> => _centroid[1] = centroid(_tree)
    /\ ret.op = "toAbsoluteCommands" =>
          ret = Returned("toAbsoluteCommands", toAbsoluteCommands(_tree))
    /\ ret.op = "start" =>
          ret = IF startThrows(_tree) THEN Thrown("start")
                ELSE Returned("start", start(_tree))
    /\ ret.op = "end" =>
          /\ _absoluteTree # <<>>
          /\ ret = IF endThrows(_tree) THEN Thrown("end")
                   ELSE Returned("end", end(_tree))
    /\ ret.op = "centroid" =>
          /\ _absoluteTree # <<>>
          /\ ret = Returned("centroid", centroid(_tree))

\* toAbsoluteCommands was called after the three getters had filled their
\* fields, on a closed path with a relative command
C22_Witness ==
    /\ Len(_tree) = 3
    /\ _tree[2][1] = "l"
    /\ _tree[3][1] = "z"
    /\ _start # <<>>
    /\ _end # <<>>
    /\ _centroid # <<>>
    /\ passes = 1
    /\ ret.op = "toAbsoluteCommands"

----------------------------------------------------------------------------
(* Properties of the constructed paths (specification SpecShapes)          *)

\* the state of the loop of toAbsoluteCommands after the commands of a
\* tree
RunningPoint(tree) ==
    AbsLoop([x |-> 0, y |-> 0, sx |-> 0, sy |-> 0, absTree |-> <<>>], tree)

\* a single closed subpath: one MoveTo, at the start, a ClosePath at the
\* end, and the running point before the ClosePath at the subpath start
ClosedSubpath(tree) ==
    /\ Len(tree) >= 2
    /\ toUpperCase[tree[1][1]] = "M"
    /\ \A i \in 2..Len(tree) : toUpperCase[tree[i][1]] # "M"
    /\ toUpperCase[tree[Len(tree)][1]] = "Z"
    /\ LET st == RunningPoint(SubSeq(tree, 1, Len(tree) - 1))
       IN  st.x = st.sx /\ st.y = st.sy

LoneMoveTo(tree) ==
    /\ Len(tree) = 1
    /\ tree[1][1] = "M"
    /\ Len(tree[1][2]) = 1

\* C25: a path built by fromCircle, fromEllipse or fromRect, with or
\* without a transform, is a single closed subpath when its radius (both
\* radii of the ellipse, both sizes of the rectangle) is positive, in
\* every radius branch of fromRect; it is a lone MoveTo when the radius
\* of the circle, a radius of the ellipse or a size of the rectangle is
\* not positive.
C25_ClosedShapes ==
    (ret.op \in {"fromCircle", "fromEllipse", "fromRect"}) =>
        LET params == args[2]
            positive ==
                IF ret.op = "fromCircle" THEN params[3] > 0
                ELSE IF ret.op = "fromEllipse"
                THEN /\ Radii(params[3], params[4])[1] > 0
                     /\ Radii(params[3], params[4])[2] > 0
                ELSE params[3] > 0 /\ params[4] > 0
        IN  IF positive THEN ClosedSubpath(ret.value)
            ELSE LoneMoveTo(ret.value)

\* the radius branch fromRect takes
RectBranch(width, height, rx_, ry_) ==
    LET rx == Radii(rx_, ry_)[1]
        ry == Radii(rx_, ry_)[2]
    IN  IF rx <= 0 \/ ry <= 0 THEN "none"
        ELSE IF 2 * rx <= width /\ 2 * ry <= height THEN "within"
        ELSE IF 2 * rx <= width THEN "ry clamped"
        ELSE IF 2 * ry <= height THEN "rx clamped"
        ELSE "both clamped"

\* a rectangle whose ry is clamped to half the height, built under a
\* transform that mirrors it
C25_Witness ==
    /\ ret.op = "fromRect"
    /\ args[2] = <<23, 29, 4, 6, <<2>>, <<5>>>>
    /\ RectBranch(4, 6, <<2>>, <<5>>) = "ry clamped"
    /\ args[3] = <<scale(-1, 1)>>
    /\ Len(ret.value) = 6

BeginsWithMoveTo(tree) == tree # <<>> => toUpperCase[tree[1][1]] = "M"

\* C26: the tree a path holds, when it is not empty, begins with a
\* MoveTo: the trees of the shape constructors and of the parser do, under
\* every transform (the H/V rewrite included); the tree returned by
\* toAbsoluteCommands does, and so does every path returned by
\* extractSubpaths, none of which is empty and which never throws.
C26_BeginsWithMoveTo ==
    /\ BeginsWithMoveTo(_tree)
    /\ ret.op \in {"fromCircle", "fromEllipse", "fromRect", "fromLine",
                   "fromPolygon", "fromPolyline", "fromString"}
          => ret.value = _tree
    /\ ret.op = "toAbsoluteCommands" =>
          /\ BeginsWithMoveTo(ret.value)
          /\ Len(ret.value) = Len(_tree)
    /\ ret.op = "extractSubpaths" =>
          /\ ~ret.thrown
          /\ \A k \in 1..Len(ret.value) :
                ret.value[k] # <<>> /\ BeginsWithMoveTo(ret.value[k])

\* the two subpaths of a parsed path built under a transform that
\* rotates, so that its H and V commands were rewritten
C26_Witness ==
    /\ ret.op = "extractSubpaths"
    /\ args # <<>>
    /\ args[1] = "fromString"
    /\ args[3] # <<>>
    /\ hasRotation(args[3][1])
    /\ \E i \in 1..Len(args[2]) : toUpperCase[args[2][i][1]] \in {"H", "V"}
    /\ Len(ret.value) >= 2

\* the sequence s of sequences, concatenated
RECURSIVE Concat(_)
Concat(s) == IF s = <<>> THEN <<>> ELSE Head(s) \o Concat(Tail(s))

\* the points of the absolute command i: every pair of M, L and T, the
\* scalars of H and V paired with the running value of the other axis,
\* the control points and end points of C, S and Q, the end points of A
PointsOf(out, i) ==
    LET letter == out[i][1]
        prev == PointAfter(out, i - 1)
    IN  IF letter = "Z" THEN <<>>
        ELSE CASE letter \in {"M", "L", "T"} -> out[i][2]
               [] letter = "H" -> VisitH(prev[2], out[i][2])
               [] letter = "V" -> VisitV(prev[1], out[i][2])
               [] letter \in {"C", "S", "Q"} -> Concat(out[i][2])
               [] letter = "A" ->
                    [j \in 1..Len(out[i][2]) |-> out[i][2][j][6]]

RECURSIVE AllPoints(_, _)
AllPoints(out, i) ==
    IF i = 0 THEN <<>> ELSE AllPoints(out, i - 1) \o PointsOf(out, i)

\* C27: the points of the absolute form of a path built with a transform
\* are the images under apply of the points of the absolute form of the
\* path built with no transform, whatever MoveTo commands the tree has.
C27_Commutes ==
    (args # <<>> /\ args[1] = "fromString" /\ args[3] # <<>>) =>
        LET before == toAbsoluteCommands(args[2])
            after == toAbsoluteCommands(_tree)
            points == AllPoints(before, Len(before))
        IN  AllPoints(after, Len(after)) =
               [k \in 1..Len(points) |-> apply(args[3][1], points[k])]

\* the same, on the trees whose relative MoveTo commands, if any, are at
\* the start
C27_CommutesFirstMoveTo ==
    (args # <<>> /\ args[1] = "fromString" /\ args[3] # <<>>
        /\ \A i \in 2..Len(args[2]) : args[2][i][1] # "m") =>
        LET before == toAbsoluteCommands(args[2])
            after == toAbsoluteCommands(_tree)
            points == AllPoints(before, Len(before))
        IN  AllPoints(after, Len(after)) =
               [k \in 1..Len(points) |-> apply(args[3][1], points[k])]


----------------------------------------------------------------------------
(* Properties of the use references (specification SpecResolve)            *)

\* the objects that the list of the id named by object u holds
Targets(u) ==
    IF Own(_href[u])
    THEN LET list == defs[_href[u]][1] IN
         {w \in Uses : \E k \in 1 .. Len(list) :
                            ~IsSvgPath(list[k]) /\ list[k][2] = w}
    ELSE {}

RECURSIVE ReachFrom(_, _)
ReachFrom(S, n) ==
    IF n = 0 THEN S
    ELSE ReachFrom(S \cup UNION {Targets(w) : w \in S}, n - 1)

\* the reference u lies on a cycle: following the references from the
\* list of its id leads back to u
OnCycle(u) == u \in ReachFrom(Targets(u), MaxUses)

\* what resolve on object u returns once it has been called; every call
\* is made under the flatMap of documents.push, and what a call returns
\* goes, mapped by the transforms of its callers, into the document
Contribution(u) == IF _result[u] = <<>> THEN <<Use(u)>> ELSE _result[u][1]

\* every call of resolve ends: the calls under way are on distinct objects
ResolveDepthBounded ==
    /\ Len(stack) <= MaxUses
    /\ \A m, n \in 1 .. Len(stack) : stack[m].obj = stack[n].obj => m = n

\* C29: resolve ends on every registry, and once the document is pushed a
\* reference that lies on a cycle or names an id that no element carries
\* has contributed no SvgPath to it.
C29_DanglingContributeNothing ==
    /\ ResolveDepthBounded
    /\ structure # <<>> =>
        \A u \in Uses :
            (OnCycle(u) \/ ~Own(_href[u]))
                => SelectSeq(Contribution(u), IsSvgPath) = <<>>

\* what does hold: a reference to an id that no element carries
\* contributes no SvgPath to a document
C29_UnregisteredContributeNothing ==
    structure # <<>> =>
        \A u \in Uses :
            ~Own(_href[u])
                => SelectSeq(Contribution(u), IsSvgPath) = <<>>

\* a reference to a name that no element carries and every object
\* inherits: once resolve has been called on it, fromString has thrown
\* and no document is pushed
C29_InheritedNameThrows ==
    \A u \in Uses :
        (_result[u] # <<>> /\ ~Own(_href[u])) =>
            /\ _href[u] \in ObjectPrototype
            /\ failure = <<"TypeError">>
            /\ structure = <<>>

\* the SvgPath objects that the flatMap of documents.push gets for the
\* first k rendered paths
RECURSIVE ResolvedPaths(_)
ResolvedPaths(k) ==
    IF k = 0 THEN <<>>
    ELSE ResolvedPaths(k - 1) \o
            (IF IsSvgPath(RenderedPaths[k]) THEN <<RenderedPaths[k]>>
             ELSE SelectSeq(Contribution(RenderedPaths[k][2]), IsSvgPath))

\* a document pushed holds the path of the path element and, for every
\* rendered reference, the paths its resolve returned
C29_DocumentOfResults ==
    structure # <<>> => structure[1] = ResolvedPaths(Len(RenderedPaths))

\* the reference of the group b that names b: the group holds the path
\* and the reference, and a second reference to b is rendered
C29_CycleContributes ==
    /\ structure # <<>>
    /\ defs["b"] = <<<<ThePath, Use(1)>>>>
    /\ _href[1] = "b"
    /\ _href[2] = "b"
    /\ Holders(2) = {}
    /\ Len(_result[1][1]) = 1
    /\ Len(_result[2][1]) = 2

----------------------------------------------------------------------------
(* Properties of the shape elements (specification SpecElements)           *)

\* the tree of the shape of the element whose call of extractPaths is
\* recorded in args: a line from (x1, y1) to (x2, y2), a closed polygon,
\* an open polyline
ShapeTree ==
    CASE args[1] = "line" ->
            LineTreeOf(args[3][1], args[3][2], args[3][3], args[3][4])
      [] args[1] = "polygon" -> PolygonTreeOf(args[3])
      [] args[1] = "polyline" -> PolylineTreeOf(args[3])

\* the shape under the transform attribute composed with the CTM
ShapeUnderCTM == transformTree(ShapeTree, <<fromString(args[4], args[5])>>)

\* C30: the path a line, polygon or polyline element emits under a CTM is
\* the same whether or not the element carries an id: in both cases it is
\* the shape of the element, a line from (x1, y1) to (x2, y2) or an open
\* polyline, under the transform attribute composed with the CTM.
C30_SameWithAndWithoutId ==
    ret # NoCall => ret.value = <<ShapeUnderCTM>>

\* what does hold: the element with an id emits its shape, and so does
\* the polygon element with no id
C30_SameWithId ==
    (ret # NoCall /\ (args[2] # <<>> \/ args[1] = "polygon"))
        => ret.value = <<ShapeUnderCTM>>

============================================================================
